---- MODULE Spec2Model ----
(***************************************************************************)
(* A model of the brs save-file codec: the bit cursor (bit_writer.rs,      *)
(* bit_reader.rs), the encoder write_save (write.rs) and the staged reader *)
(* (read.rs).                                                              *)
(*                                                                         *)
(* A u32 is modelled as the set of the positions of its 1 bits, a subset   *)
(* of 0..31, because the values the code handles reach 2^32 - 1.  An i32   *)
(* and a usize are integers.  A byte is an integer in 0..255.              *)
(***************************************************************************)
EXTENDS Integers, Sequences, FiniteSets, TLC

VARIABLES
    overflow_checks,  \* the build: TRUE when integer overflow panics (debug), FALSE when it wraps (release)
    bw,               \* the BitWriter under test: w, cur, bit, and how its last call ended
    log,              \* the calls made on bw, in order, each with the bits it wrote
    br,               \* the BitReader over the bytes bw produced
    got,              \* the values the reader returned, in order
    phase,            \* "write", "read", "aborted" after a panic; "idle" when the pipeline runs
    data,             \* the WriteData given to write_save
    wres,             \* write_save's outcome: the bytes in the sink, the result, the section headers
    rd,               \* the Reader: its byte source, stage, headers
    it,               \* the ReadBricks iterator
    yielded,          \* what next() has returned so far
    rt,               \* the outcome of into_write_data
    call,             \* one function of the codec called on its own: its name and arguments
    ret               \* what that call returned

bitvars == <<bw, log, br, got, phase>>

pipevars == <<data, wres, rd, it, yielded, rt>>

callvars == <<call, ret>>

vars == <<overflow_checks, bw, log, br, got, phase, data, wres, rd, it, yielded, rt, call, ret>>

(***************************************************************************)
(* Bounds of the model.                                                    *)
(***************************************************************************)
MaxOps == 2

(***************************************************************************)
(* u32 arithmetic, as Rust computes it.                                    *)
(***************************************************************************)
SetMin(s) == CHOOSE x \in s : \A y \in s : x <= y

U32Of(n) == {b \in 0..30 : (n \div (2^b)) % 2 = 1}

RECURSIVE NatOf(_)
NatOf(s) == IF s = {} THEN 0
            ELSE LET b == SetMin(s) IN (2^b) + NatOf(s \ {b})

U32Lt(a, b) == \E k \in b \ a : \A j \in (k+1)..31 : (j \in a) <=> (j \in b)

\* a + 2^k on 32 bits; of is TRUE when the sum does not fit
U32AddPow(a, k) ==
    LET free == {j \in k..31 : j \notin a}
    IN IF free = {} THEN [v |-> a \ (k..31), of |-> TRUE]
       ELSE [v |-> (a \ (k..SetMin(free))) \cup {SetMin(free)}, of |-> FALSE]

RECURSIVE U32Add(_, _)
U32Add(a, b) ==
    IF b = {} THEN [v |-> a, of |-> FALSE]
    ELSE LET k  == SetMin(b)
             r1 == U32AddPow(a, k)
             r2 == U32Add(r1.v, b \ {k})
         IN [v |-> r2.v, of |-> r1.of \/ r2.of]

U32Mul2(a) == [v |-> {k + 1 : k \in a} \cap (0..31), of |-> 31 \in a]

U32Shr(a, n) == {k - n : k \in {x \in a : x >= n}}

U32Shl(a, n) == {k + n : k \in a} \cap (0..31)

MinI32 == -2147483647 - 1

(***************************************************************************)
(* BitWriter (bit_writer.rs).  st is "ok", "InvalidInput" (the io::Error   *)
(* write_int returns) or "panic".  Every call on a writer that has failed  *)
(* leaves it as it is: the caller returned at the `?`.                     *)
(***************************************************************************)
BIT_SHIFT == <<1, 2, 4, 8, 16, 32, 64, 128>>

ByteOr(x, m) == IF (x \div m) % 2 = 1 THEN x ELSE x + m

BitWriterNew == [w |-> <<>>, cur |-> 0, bit |-> 0, st |-> "ok"]

Panicked(b) == [b EXCEPT !.st = "panic"]

ByteAlign(b) ==
    IF b.st # "ok" THEN b
    ELSE IF b.bit # 0 THEN [b EXCEPT !.w = Append(@, b.cur), !.cur = 0, !.bit = 0]
    ELSE b

WriteBit(b, bit) ==
    IF b.st # "ok" THEN b
    ELSE LET cur1 == IF bit THEN ByteOr(b.cur, BIT_SHIFT[b.bit + 1]) ELSE b.cur
         IN IF b.bit = 7
            THEN [b EXCEPT !.w = Append(@, cur1), !.cur = 0, !.bit = 0]
            ELSE [b EXCEPT !.cur = cur1, !.bit = @ + 1]

RECURSIVE WriteBitsNaive(_, _, _, _)
WriteBitsNaive(b, bits, src, bit) ==
    IF bit >= bits \/ b.st # "ok" THEN b
    ELSE IF (bit \div 8) + 1 > Len(src) THEN Panicked(b)
    ELSE WriteBitsNaive(
             WriteBit(b, (src[(bit \div 8) + 1] \div (2^(bit % 8))) % 2 = 1),
             bits, src, bit + 1)

WriteBits(b, src, bits) == WriteBitsNaive(b, bits, src, 0)

BitWriterFinish(b) == ByteAlign(b)

\* the writer's bit position: the bytes written and the bits pending in cur
WPos(b) == 8 * Len(b.w) + b.bit

\* a write_int whose loop runs while (new_value + mask) <= max
WriteIntCondLe(sum, max, mask) == (U32Lt(sum, max) \/ sum = max) /\ mask # {}

\* the loop condition of write_int: (new_value + mask) < max && mask != 0
WriteIntCond(sum, max, mask) == U32Lt(sum, max) /\ mask # {}

RECURSIVE WriteIntLoop(_, _, _, _, _)
WriteIntLoop(b, value, max, new_value, mask) ==
    LET sum == U32Add(new_value, mask)
    IN IF b.st # "ok" THEN b
       ELSE IF sum.of /\ overflow_checks THEN Panicked(b)
       ELSE IF ~WriteIntCond(sum.v, max, mask) THEN b
       ELSE LET set == (value \cap mask) # {}
                b1  == WriteBit(b, set)
                nv  == IF set THEN new_value \cup mask ELSE new_value
                m2  == U32Mul2(mask)
            IN IF m2.of /\ overflow_checks THEN Panicked(b1)
               ELSE WriteIntLoop(b1, value, max, nv, m2.v)

WriteInt(b, value, max) ==
    IF b.st # "ok" THEN b
    ELSE IF U32Lt(max, {1}) THEN Panicked(b)
    ELSE IF ~U32Lt(value, max) THEN [b EXCEPT !.st = "InvalidInput"]
    ELSE WriteIntLoop(b, value, max, {}, {0})

\* a write_int_packed that tests value != 0 before the first group instead of after it
RECURSIVE WriteIntPackedWhile(_, _)
WriteIntPackedWhile(b, value) ==
    LET src == <<NatOf(value \cap (0..6))>>
        v1  == U32Shr(value, 7)
        b1  == WriteBit(b, v1 # {})
        b2  == WriteBits(b1, src, 7)
    IN IF b.st # "ok" \/ value = {} THEN b
       ELSE WriteIntPackedWhile(b2, v1)

RECURSIVE WriteIntPacked(_, _)
WriteIntPacked(b, value) ==
    LET src == <<NatOf(value \cap (0..6))>>
        v1  == U32Shr(value, 7)
        b1  == WriteBit(b, v1 # {})
        b2  == WriteBits(b1, src, 7)
    IN IF b.st # "ok" THEN b
       ELSE IF v1 = {} THEN b2
       ELSE WriteIntPacked(b2, v1)

WritePositiveIntVectorPacked(b, v) ==
    WriteIntPacked(WriteIntPacked(WriteIntPacked(b, v[1]), v[2]), v[3])

\* a map that sets the low bit for x >= 0 instead of x > 0
IntVectorMapNonNegative(x) ==
    LET abs == IF x = MinI32 THEN {31} ELSE U32Of(IF x < 0 THEN -x ELSE x)
    IN [v     |-> U32Shl(abs, 1) \cup (IF x >= 0 THEN {0} ELSE {}),
        panic |-> x = MinI32 /\ overflow_checks]

\* fn map inside write_int_vector_packed: x.abs() overflows for i32::MIN
IntVectorMap(x) ==
    LET abs == IF x = MinI32 THEN {31} ELSE U32Of(IF x < 0 THEN -x ELSE x)
    IN [v     |-> U32Shl(abs, 1) \cup (IF x > 0 THEN {0} ELSE {}),
        panic |-> x = MinI32 /\ overflow_checks]

WriteMapped(b, x) ==
    IF b.st # "ok" THEN b
    ELSE IF IntVectorMap(x).panic THEN Panicked(b)
    ELSE WriteIntPacked(b, IntVectorMap(x).v)

WriteIntVectorPacked(b, v) ==
    WriteMapped(WriteMapped(WriteMapped(b, v[1]), v[2]), v[3])

(***************************************************************************)
(* BitReader (bit_reader.rs).  A read past the end of buf indexes out of   *)
(* bounds and panics.  Each read returns [r |-> the reader after it,       *)
(* v |-> the value].                                                       *)
(***************************************************************************)
BitReaderNew(buf) == [kind |-> "bits", buf |-> buf, pos |-> 0, st |-> "ok"]

ReadBit(r) ==
    IF r.st # "ok" THEN [r |-> r, v |-> FALSE]
    ELSE IF (r.pos \div 8) + 1 > Len(r.buf)
    THEN [r |-> [r EXCEPT !.st = "panic"], v |-> FALSE]
    ELSE [r |-> [r EXCEPT !.pos = @ + 1],
          v |-> (r.buf[(r.pos \div 8) + 1] \div (2^(r.pos % 8))) % 2 = 1]

\* the loop condition of read_int: (value + mask) < max && mask != 0
ReadIntCond(sum, max, mask) == U32Lt(sum, max) /\ mask # {}

RECURSIVE ReadIntLoop(_, _, _, _)
ReadIntLoop(r, max, value, mask) ==
    LET sum == U32Add(value, mask)
    IN IF r.st # "ok" THEN [r |-> r, v |-> value]
       ELSE IF sum.of /\ overflow_checks THEN [r |-> [r EXCEPT !.st = "panic"], v |-> value]
       ELSE IF ~ReadIntCond(sum.v, max, mask) THEN [r |-> r, v |-> value]
       ELSE LET rb == ReadBit(r)
                nv == IF rb.v THEN value \cup mask ELSE value
                m2 == U32Mul2(mask)
            IN IF rb.r.st = "ok" /\ m2.of /\ overflow_checks
               THEN [r |-> [rb.r EXCEPT !.st = "panic"], v |-> nv]
               ELSE ReadIntLoop(rb.r, max, nv, m2.v)

ReadInt(r, max) == ReadIntLoop(r, max, {}, {0})

RECURSIVE ReadPart(_, _, _)
ReadPart(r, part, bit_shift) ==
    IF bit_shift >= 7 THEN [r |-> r, v |-> part]
    ELSE LET rb == ReadBit(r)
         IN ReadPart(rb.r, part \cup (IF rb.v THEN {bit_shift} ELSE {}), bit_shift + 1)

RECURSIVE ReadIntPackedLoop(_, _, _)
ReadIntPackedLoop(r, value, i) ==
    IF i >= 5 \/ r.st # "ok" THEN [r |-> r, v |-> value]
    ELSE LET has_next == ReadBit(r)
             part     == ReadPart(has_next.r, {}, 0)
             v1       == value \cup U32Shl(part.v, 7 * i)
         IN IF ~has_next.v THEN [r |-> part.r, v |-> v1]
            ELSE ReadIntPackedLoop(part.r, v1, i + 1)

ReadIntPacked(r) == ReadIntPackedLoop(r, {}, 0)

\* an eat_byte_align that always moves to the next byte
EatByteAlignAlways(r) == [r EXCEPT !.pos = ((r.pos + 8) \div 8) * 8]

EatByteAlign(r) == [r EXCEPT !.pos = ((r.pos + 7) \div 8) * 8]

RivpItem(r) ==
    LET rv == ReadIntPacked(r)
    IN [r |-> rv.r,
        v |-> NatOf(U32Shr(rv.v, 1)) * (IF 0 \in rv.v THEN 1 ELSE -1)]

ReadIntVectorPacked(r) ==
    LET a == RivpItem(r)
        b == RivpItem(a.r)
        c == RivpItem(b.r)
    IN [r |-> c.r, v |-> <<a.v, b.v, c.v>>]

ReadPositiveIntVectorPacked(r) ==
    LET a == ReadIntPacked(r)
        b == ReadIntPacked(a.r)
        c == ReadIntPacked(b.r)
    IN [r |-> c.r, v |-> <<a.v, b.v, c.v>>]

(***************************************************************************)
(* Byte encodings (byteorder::WriteBytesExt), little-endian.               *)
(***************************************************************************)
RECURSIVE LEBytes(_, _)
LEBytes(n, k) == IF k = 0 THEN <<>> ELSE <<n % 256>> \o LEBytes(n \div 256, k - 1)

U16LE(n) == LEBytes(n, 2)

\* an i32; a negative n is the complement of -(n + 1)
I32LE(n) == IF n >= 0 THEN LEBytes(n, 4)
            ELSE [k \in 1..4 |-> 255 - LEBytes(-(n + 1), 4)[k]]

I64LE(n) == IF n >= 0 THEN LEBytes(n, 8)
            ELSE [k \in 1..8 |-> 255 - LEBytes(-(n + 1), 8)[k]]

U32LE(u) == [k \in 1..4 |-> NatOf({b - 8 * (k - 1) : b \in u \cap ((8 * (k - 1))..(8 * k - 1))})]

(***************************************************************************)
(* zlib (the libflate encoder and the flate2 decoder, external crates).    *)
(* The stand-in keeps what the codec relies on: a two-byte header, a body  *)
(* that shrinks runs of equal bytes (one <<count, byte>> pair per run), a  *)
(* four-byte check value, and inflate(deflate(P)) = P.                     *)
(***************************************************************************)
\* the runs of p[lo..hi], halving the range
RECURSIVE DeflateRange(_, _, _)
DeflateRange(p, lo, hi) ==
    IF lo > hi THEN <<>>
    ELSE IF lo = hi THEN <<1, p[lo]>>
    ELSE LET mid == (lo + hi) \div 2
             l   == DeflateRange(p, lo, mid)
             r   == DeflateRange(p, mid + 1, hi)
             n   == Len(l)
         IN IF l[n] = r[2] /\ l[n - 1] + r[1] <= 255
            THEN SubSeq(l, 1, n - 2) \o <<l[n - 1] + r[1], l[n]>> \o SubSeq(r, 3, Len(r))
            ELSE l \o r

Deflate(p) == DeflateRange(p, 1, Len(p))

RECURSIVE SumRange(_, _, _)
SumRange(p, lo, hi) ==
    IF lo > hi THEN 0
    ELSE IF lo = hi THEN p[lo]
    ELSE SumRange(p, lo, (lo + hi) \div 2) + SumRange(p, (lo + hi) \div 2 + 1, hi)

SumBytes(p) == SumRange(p, 1, Len(p))

ZlibEncode(p) == <<120, 156>> \o Deflate(p) \o LEBytes(SumBytes(p) % 65521, 4)

(***************************************************************************)
(* write.rs.  A Compressed is its uncompressed bytes and how the last      *)
(* write on it ended; the sink w is the bytes written to it, the result,   *)
(* and (for the claims) the section headers written so far.                *)
(***************************************************************************)
MAGIC == <<66, 82, 83>>

LATEST_VERSION == 4

I32Max == 2147483647

CompressedNew == [uncompressed |-> <<>>, st |-> "ok"]

CompressedWrite(s, src) ==
    IF s.st # "ok" THEN s ELSE [s EXCEPT !.uncompressed = @ \o src]

\* a finish that keeps the compressed form when it is as long as the payload
CompressedFinishStrict(w, s) ==
    IF Len(ZlibEncode(s.uncompressed)) > Len(s.uncompressed)
    THEN [w EXCEPT !.sink = @ \o I32LE(Len(s.uncompressed)) \o I32LE(0) \o s.uncompressed,
                   !.hdrs = Append(@, <<Len(s.uncompressed), 0>>)]
    ELSE [w EXCEPT !.sink = @ \o I32LE(Len(s.uncompressed))
                               \o I32LE(Len(ZlibEncode(s.uncompressed)))
                               \o ZlibEncode(s.uncompressed),
                   !.hdrs = Append(@, <<Len(s.uncompressed), Len(ZlibEncode(s.uncompressed))>>)]

CompressedFinish(w, s) ==
    LET compressed        == ZlibEncode(s.uncompressed)
        uncompressed_size == Len(s.uncompressed)
        compressed_size   == Len(compressed)
    IN IF w.st # "ok" THEN w
       ELSE IF s.st # "ok" THEN [w EXCEPT !.st = s.st]
       ELSE IF uncompressed_size >= I32Max \/ compressed_size >= I32Max
       THEN [w EXCEPT !.st = "InvalidInput"]
       ELSE IF compressed_size >= uncompressed_size
       THEN [w EXCEPT !.sink = @ \o I32LE(uncompressed_size) \o I32LE(0) \o s.uncompressed,
                      !.hdrs = Append(@, <<uncompressed_size, 0>>)]
       ELSE [w EXCEPT !.sink = @ \o I32LE(uncompressed_size) \o I32LE(compressed_size)
                                  \o compressed,
                      !.hdrs = Append(@, <<uncompressed_size, compressed_size>>)]

\* a String is the sequence of its code points
IsAscii(str) == \A i \in 1..Len(str) : str[i] < 128

Utf8Len(cp) == IF cp < 128 THEN 1 ELSE IF cp < 2048 THEN 2 ELSE IF cp < 65536 THEN 3 ELSE 4

RECURSIVE StrLen(_)
StrLen(str) == IF str = <<>> THEN 0 ELSE Utf8Len(str[1]) + StrLen(Tail(str))

is_ucs2(number) == number <= 55295 \/ number >= 57344

RECURSIVE WriteChars(_, _)
WriteChars(s, str) ==
    IF str = <<>> \/ s.st # "ok" THEN s
    ELSE IF is_ucs2(str[1])
    THEN WriteChars(CompressedWrite(s, U16LE(str[1] % 65536)), Tail(str))
    ELSE [s EXCEPT !.st = "InvalidInput"]

write_string(s, str) ==
    IF s.st # "ok" THEN s
    ELSE IF IsAscii(str)
    THEN CompressedWrite(s, I32LE(StrLen(str) + 1) \o str \o <<0>>)
    ELSE CompressedWrite(
             WriteChars(CompressedWrite(s, I32LE(-((StrLen(str) + 1) * 2))), str),
             U16LE(0))

\* a Uuid is its 16 bytes; each big-endian word is written little-endian
write_uuid(s, uuid) ==
    CompressedWrite(s, [k \in 1..16 |-> uuid[4 * ((k - 1) \div 4) + 4 - ((k - 1) % 4)]])

\* let x = ...; the rest
Let(x, Rest(_)) == Rest(x)

\* the ticks of a second: the ticks are counted in units of 100 ns
TicksPerSecond == 10000000

\* 64-bit quantities are kept as three digits to the base TicksPerSecond, the
\* lowest first; 2^64 and i64::MAX
Pow64 == <<9551616, 4407370, 184467>>

I64Max == <<4775807, 7203685, 92233>>

BigLt(a, b) ==
    \/ a[3] < b[3]
    \/ a[3] = b[3] /\ a[2] < b[2]
    \/ a[3] = b[3] /\ a[2] = b[2] /\ a[1] < b[1]

\* a - b for a >= b
BigSub(a, b) ==
    LET c1 == IF a[1] < b[1] THEN 1 ELSE 0
        c2 == IF a[2] - c1 < b[2] THEN 1 ELSE 0
    IN <<a[1] - b[1] + c1 * TicksPerSecond, a[2] - c1 - b[2] + c2 * TicksPerSecond,
         a[3] - c2 - b[3]>>

\* a + n for a digit n
BigAdd(a, n) ==
    LET s1 == a[1] + n
        s2 == a[2] + s1 \div TicksPerSecond
    IN <<s1 % TicksPerSecond, s2 % TicksPerSecond, a[3] + s2 \div TicksPerSecond>>

\* a modulo 2^64
RECURSIVE WrapU64(_)
WrapU64(a) == IF BigLt(a, Pow64) THEN a ELSE WrapU64(BigSub(a, Pow64))

BigDiv16(a) ==
    LET c2 == (a[3] % 16) * TicksPerSecond + a[2]
        c1 == (c2 % 16) * TicksPerSecond + a[1]
    IN [q |-> <<c1 \div 16, c2 \div 16, a[3] \div 16>>, r |-> c1 % 16]

\* the k low bytes of a, the lowest first
RECURSIVE BigLE(_, _)
BigLE(a, k) ==
    IF k = 0 THEN <<>>
    ELSE Let(BigDiv16(a), LAMBDA x :
         Let(BigDiv16(x.q), LAMBDA y : <<x.r + 16 * y.r>> \o BigLE(y.q, k - 1)))

\* Duration::to_std of date_time - ue4_date_time_base(): a DateTime is
\* [secs, nanos] after the base (secs < 0: before it, and to_std fails), with
\* hi for the seconds from TicksPerSecond on: hi * TicksPerSecond + secs
Hi(date_time) == IF "hi" \in DOMAIN date_time THEN date_time.hi ELSE 0

\* as_secs() * 10_000_000 is a u64 product; i64::try_from(..).unwrap() panics
\* above i64::MAX; ticks_secs + ticks_nanos is an i64 sum
write_date_time(s, date_time) ==
    IF date_time.secs < 0 THEN CompressedWrite(s, BigLE(<<0, 0, 0>>, 8))
    ELSE Let(<<0, date_time.secs, Hi(date_time)>>, LAMBDA product :
         IF ~BigLt(product, Pow64) /\ overflow_checks THEN [s EXCEPT !.st = "panic"]
         ELSE Let(WrapU64(product), LAMBDA ticks_secs :
         IF BigLt(I64Max, ticks_secs) THEN [s EXCEPT !.st = "panic"]
         ELSE Let(BigAdd(ticks_secs, date_time.nanos \div 100), LAMBDA ticks :
         IF BigLt(I64Max, ticks) /\ overflow_checks THEN [s EXCEPT !.st = "panic"]
         ELSE CompressedWrite(s, BigLE(ticks, 8)))))

WriteElement(s, kind, value) ==
    CASE kind = "string" -> write_string(s, value)
      [] kind = "color"  -> CompressedWrite(s, U32LE(value))
      [] kind = "owner"  -> write_string(write_uuid(s, value.id), value.name)

RECURSIVE WriteElements(_, _, _)
WriteElements(s, kind, values) ==
    IF values = <<>> \/ s.st # "ok" THEN s
    ELSE WriteElements(WriteElement(s, kind, values[1]), kind, Tail(values))

write_array(s, kind, values) ==
    IF s.st # "ok" THEN s
    ELSE IF Len(values) > I32Max THEN [s EXCEPT !.st = "Other"]
    ELSE WriteElements(CompressedWrite(s, I32LE(Len(values))), kind, values)

\* a packing that shifts the direction by one bit only
CombineOrientationShiftOne(direction, rotation) == direction * 2 + rotation

combine_orientation(direction, rotation) == direction * 4 + rotation

UMax(a, b) == IF a > b THEN a ELSE b

\* i + 1 on u32
U32Inc(u) == U32Add(u, {0})

\* BitWriter's impl Write, over write_bits
BitWriterWrite(b, src) == WriteBits(b, src, 8 * Len(src))

\* the body of the brick loop of write_save
WriteBrick(b, brick, d) ==
    Let(ByteAlign(b), LAMBDA s0 :
    Let(WriteInt(s0, brick.asset_name_index, U32Of(UMax(Len(d.brick_assets), 2))),
         LAMBDA s1 :
    Let(WriteBit(s1, brick.size # <<{}, {}, {}>>), LAMBDA s2 :
    Let(IF brick.size # <<{}, {}, {}>> THEN WritePositiveIntVectorPacked(s2, brick.size)
         ELSE s2, LAMBDA s3 :
    Let(WriteIntVectorPacked(s3, brick.position), LAMBDA s4 :
    Let(WriteInt(s4, U32Of(combine_orientation(brick.direction, brick.rotation)), U32Of(24)),
         LAMBDA s5 :
    Let(WriteBit(s5, brick.collision), LAMBDA s6 :
    Let(WriteBit(s6, brick.visibility), LAMBDA s7 :
    Let(WriteBit(s7, brick.material_index # U32Of(1)), LAMBDA s8 :
    Let(IF brick.material_index # U32Of(1) THEN WriteIntPacked(s8, brick.material_index)
         ELSE s8, LAMBDA s9 :
    Let(IF brick.color.mode = "Set"
         THEN WriteInt(WriteBit(s9, FALSE), brick.color.v, U32Of(Len(d.colors)))
         ELSE BitWriterWrite(WriteBit(s9, TRUE), U32LE(brick.color.v)), LAMBDA sa :
    Let(IF brick.owner_index = <<>> THEN [v |-> {}, of |-> FALSE]
         ELSE U32Inc(brick.owner_index[1]), LAMBDA owner :
        IF sa.st = "ok" /\ owner.of /\ overflow_checks THEN Panicked(sa)
        ELSE WriteIntPacked(sa, owner.v)))))))))))))

\* the brick loop; starts collects the bit position at which each brick begins
RECURSIVE WriteBricks(_, _, _, _)
WriteBricks(b, starts, bricks, d) ==
    IF bricks = <<>> \/ b.st # "ok" THEN [s |-> b, starts |-> starts]
    ELSE WriteBricks(WriteBrick(b, bricks[1], d), Append(starts, WPos(ByteAlign(b))),
                     Tail(bricks), d)

\* the first header section of write_save
WriteHeader1(d) ==
    CompressedWrite(
        write_date_time(
            write_uuid(
                write_string(
                    write_string(write_string(CompressedNew, d.map), d.author.name),
                    d.description),
                d.author.id),
            d.save_time),
        I32LE(Len(d.bricks)))

\* the second header section of write_save
WriteHeader2(d) ==
    write_array(
        write_array(
            write_array(
                write_array(write_array(CompressedNew, "string", d.mods),
                            "string", d.brick_assets),
                "color", d.colors),
            "string", d.materials),
        "owner", d.brick_owners)

SinkNew == [sink |-> <<>>, st |-> "ok", hdrs |-> <<>>, starts |-> <<>>]

\* the brick section: the brick loop, BitWriter::finish, Compressed::finish
WriteBrickSection(w, d) ==
    IF w.st # "ok" THEN w
    ELSE Let(WriteBricks(BitWriterNew, <<>>, d.bricks, d), LAMBDA loop :
         Let(BitWriterFinish(loop.s), LAMBDA s :
              IF s.st # "ok" THEN [w EXCEPT !.st = s.st, !.starts = loop.starts]
              ELSE [CompressedFinish(w, [uncompressed |-> s.w, st |-> "ok"])
                        EXCEPT !.starts = loop.starts]))

write_save(d) ==
    LET w1 == [SinkNew EXCEPT !.sink = MAGIC \o U16LE(LATEST_VERSION)]
        w2 == CompressedFinish(w1, WriteHeader1(d))
        w3 == CompressedFinish(w2, WriteHeader2(d))
    IN IF Len(d.bricks) > I32Max THEN [SinkNew EXCEPT !.st = "InvalidInput"]
       ELSE WriteBrickSection(w3, d)

(***************************************************************************)
(* Byte decodings (byteorder::ReadBytesExt) over a reader: a byte cursor   *)
(* (the file, a Cursor over a section) or a BitReader through its impl     *)
(* Read.  A read returns the reader after it (c) and the value (v).        *)
(***************************************************************************)
ByteCursor(buf) == [kind |-> "bytes", buf |-> buf, pos |-> 0, st |-> "ok"]

Failed(c, st) == [c |-> [c EXCEPT !.st = st], v |-> <<>>]

\* let x = ...?; the rest
Try(x, Rest(_)) == IF x.c.st # "ok" THEN x ELSE Rest(x)

\* Result::map
Value(x, Of(_)) == IF x.c.st # "ok" THEN x ELSE [c |-> x.c, v |-> Of(x.v)]

SetBit(byte, shift, b) ==
    (byte - (IF (byte \div (2^shift)) % 2 = 1 THEN 2^shift ELSE 0)) + (IF b THEN 2^shift ELSE 0)

RECURSIVE ReadBitsLoop(_, _, _, _)
ReadBitsLoop(r, dst, len, bit) ==
    IF bit >= len \/ r.st # "ok" THEN [r |-> r, v |-> dst]
    ELSE Let(ReadBit(r), LAMBDA rb :
             IF rb.r.st # "ok" THEN [r |-> rb.r, v |-> dst]
             ELSE ReadBitsLoop(rb.r,
                               [dst EXCEPT ![(bit \div 8) + 1] = SetBit(@, bit % 8, rb.v)],
                               len, bit + 1))

\* read_bits: every read_bit moves pos, and pos moves by len once more after the loop
ReadBits(r, dst, len) ==
    Let(ReadBitsLoop(r, dst, len, 0), LAMBDA l :
        [r |-> IF l.r.st = "ok" THEN [l.r EXCEPT !.pos = @ + len] ELSE l.r, v |-> l.v])

\* read_exact of n bytes
ReadExact(c, n) ==
    IF c.st # "ok" THEN [c |-> c, v |-> <<>>]
    ELSE IF n = 0 THEN [c |-> c, v |-> <<>>]
    ELSE IF c.kind = "bytes"
    THEN IF n > Len(c.buf) - c.pos THEN Failed(c, "UnexpectedEof")
         ELSE [c |-> [c EXCEPT !.pos = @ + n], v |-> SubSeq(c.buf, c.pos + 1, c.pos + n)]
    ELSE IF n > Len(c.buf) THEN Failed(c, "panic")
    ELSE Let(ReadBits(c, [k \in 1..n |-> 0], 8 * n), LAMBDA rb : [c |-> rb.r, v |-> rb.v])

RECURSIVE FromLE(_)
FromLE(b) == IF b = <<>> THEN 0 ELSE b[1] + 256 * FromLE(Tail(b))

I32FromLE(b) == IF b[4] >= 128 THEN -FromLE([k \in 1..4 |-> 255 - b[k]]) - 1 ELSE FromLE(b)

U32FromLE(b) == UNION {{x + 8 * (k - 1) : x \in U32Of(b[k])} : k \in 1..4}

ReadU8(c) == Value(ReadExact(c, 1), LAMBDA b : b[1])

ReadI32(c) == Value(ReadExact(c, 4), I32FromLE)

ReadU32(c) == Value(ReadExact(c, 4), U32FromLE)

ReadU16(c) == Value(ReadExact(c, 2), FromLE)

\* read_u16_into: n units in one read_exact of 2n bytes
ReadU16Into(c, n) ==
    Value(IF n > Len(c.buf) THEN ReadExact(c, n + Len(c.buf)) ELSE ReadExact(c, 2 * n),
          LAMBDA b : [k \in 1..n |-> b[2 * k - 1] + 256 * b[2 * k]])

(***************************************************************************)
(* String::from_utf16 and String::from_utf8 (std): the code points, or an  *)
(* error for an unpaired surrogate or an ill-formed sequence.              *)
(***************************************************************************)
IsHigh(u) == 55296 <= u /\ u <= 56319

IsLow(u) == 56320 <= u /\ u <= 57343

Decoded(cp, rest) == [ok |-> rest.ok, s |-> <<cp>> \o rest.s]

RECURSIVE FromUtf16(_)
FromUtf16(u) ==
    IF u = <<>> THEN [ok |-> TRUE, s |-> <<>>]
    ELSE IF IsHigh(u[1])
    THEN IF Len(u) >= 2 /\ IsLow(u[2])
         THEN Decoded(65536 + (u[1] - 55296) * 1024 + (u[2] - 56320),
                      FromUtf16(SubSeq(u, 3, Len(u))))
         ELSE [ok |-> FALSE, s |-> <<>>]
    ELSE IF IsLow(u[1]) THEN [ok |-> FALSE, s |-> <<>>]
    ELSE Decoded(u[1], FromUtf16(Tail(u)))

IsCont(b, i) == i <= Len(b) /\ 128 <= b[i] /\ b[i] <= 191

\* the code point and the length of the sequence that b begins with; 0 if ill-formed
Utf8Head(b) ==
    LET cp2 == (b[1] - 192) * 64 + (b[2] - 128)
        cp3 == (b[1] - 224) * 4096 + (b[2] - 128) * 64 + (b[3] - 128)
        cp4 == (b[1] - 240) * 262144 + (b[2] - 128) * 4096 + (b[3] - 128) * 64 + (b[4] - 128)
        bad == [cp |-> 0, n |-> 0]
    IN IF b[1] < 128 THEN [cp |-> b[1], n |-> 1]
       ELSE IF 194 <= b[1] /\ b[1] <= 223 /\ IsCont(b, 2) THEN [cp |-> cp2, n |-> 2]
       ELSE IF 224 <= b[1] /\ b[1] <= 239 /\ IsCont(b, 2) /\ IsCont(b, 3)
       THEN IF cp3 >= 2048 /\ ~(55296 <= cp3 /\ cp3 <= 57343) THEN [cp |-> cp3, n |-> 3]
            ELSE bad
       ELSE IF 240 <= b[1] /\ b[1] <= 244 /\ IsCont(b, 2) /\ IsCont(b, 3) /\ IsCont(b, 4)
       THEN IF cp4 >= 65536 /\ cp4 <= 1114111 THEN [cp |-> cp4, n |-> 4] ELSE bad
       ELSE bad

RECURSIVE FromUtf8(_)
FromUtf8(b) ==
    IF b = <<>> THEN [ok |-> TRUE, s |-> <<>>]
    ELSE Let(Utf8Head(b), LAMBDA h :
             IF h.n = 0 THEN [ok |-> FALSE, s |-> <<>>]
             ELSE Decoded(h.cp, FromUtf8(SubSeq(b, h.n + 1, Len(b)))))

\* String::pop
Pop(str) == IF str = <<>> THEN str ELSE SubSeq(str, 1, Len(str) - 1)

(***************************************************************************)
(* read.rs: the field readers.                                             *)
(***************************************************************************)
\* the end of string: the decoding error, or the text without its last character
Text(c, s) == IF ~s.ok THEN Failed(c, "InvalidData") ELSE [c |-> c, v |-> Pop(s.s)]

string(c) ==
    Try(ReadI32(c), LAMBDA size :
        IF size.v < 0
        THEN IF size.v = MinI32 THEN Failed(size.c, "InvalidData")
             ELSE Try(ReadU16Into(size.c, -size.v), LAMBDA wide : Text(wide.c, FromUtf16(wide.v)))
        ELSE Try(ReadExact(size.c, size.v), LAMBDA narrow : Text(narrow.c, FromUtf8(narrow.v))))

uuid(c) ==
    Value(ReadExact(c, 16),
          LAMBDA b : [k \in 1..16 |-> b[4 * ((k - 1) \div 4) + 4 - ((k - 1) % 4)]])

BigMul16(a) ==
    LET p1 == a[1] * 16
        p2 == a[2] * 16 + p1 \div TicksPerSecond
    IN <<p1 % TicksPerSecond, p2 % TicksPerSecond, a[3] * 16 + p2 \div TicksPerSecond>>

\* the number that the bytes b hold, the lowest byte first
RECURSIVE BigFromLE(_)
BigFromLE(b) ==
    IF b = <<>> THEN <<0, 0, 0>>
    ELSE BigAdd(BigMul16(BigMul16(BigFromLE(Tail(b)))), b[1])

\* ticks from 0 on give [secs, nanos] after ue4_date_time_base, with hi for
\* the seconds from TicksPerSecond on; negative ticks give a date before the
\* base, kept as its eight bytes
DateTimeOfTicks(b) ==
    IF b[8] >= 128 THEN [raw |-> b]
    ELSE Let(BigFromLE(b), LAMBDA ticks :
             IF ticks[3] = 0 THEN [secs |-> ticks[2], nanos |-> ticks[1] * 100]
             ELSE [hi |-> ticks[3], secs |-> ticks[2], nanos |-> ticks[1] * 100])

date_time(c) == Value(ReadExact(c, 8), DateTimeOfTicks)

read_user(c) ==
    Try(uuid(c), LAMBDA id :
    Try(string(id.c), LAMBDA name :
        [c |-> name.c, v |-> [id |-> id.v, name |-> name.v]]))

read_user_name_first(c) ==
    Try(string(c), LAMBDA name :
    Try(uuid(name.c), LAMBDA id :
        [c |-> id.c, v |-> [id |-> id.v, name |-> name.v]]))

read_brick_owner(c) ==
    Try(read_user(c), LAMBDA user :
    Try(ReadU32(user.c), LAMBDA count :
        [c |-> count.c, v |-> [user |-> user.v, brick_count |-> count.v]]))

ReadElement(c, kind) ==
    CASE kind = "string"      -> string(c)
      [] kind = "color"       -> ReadU32(c)
      [] kind = "user"        -> read_user(c)
      [] kind = "brick_owner" -> read_brick_owner(c)

RECURSIVE ReadElements(_, _, _, _)
ReadElements(c, kind, count, vec) ==
    IF count <= 0 THEN [c |-> c, v |-> vec]
    ELSE Try(ReadElement(c, kind), LAMBDA e :
             ReadElements(e.c, kind, count - 1, Append(vec, e.v)))

\* Vec::with_capacity(count as usize) overflows the capacity for a negative count
array(c, kind) ==
    Try(ReadI32(c), LAMBDA count :
        IF count.v < 0 THEN Failed(count.c, "panic")
        ELSE ReadElements(count.c, kind, count.v, <<>>))

(***************************************************************************)
(* Inflating a zlib stream (flate2::bufread::ZlibDecoder, external): the   *)
(* inverse of the stand-in encoder.  The decoder is taken to consume the   *)
(* whole stream it was given.                                              *)
(***************************************************************************)
\* the bytes of the runs lo..hi of z, halving the range
RECURSIVE InflateRange(_, _, _)
InflateRange(z, lo, hi) ==
    IF lo > hi THEN <<>>
    ELSE IF lo = hi THEN [k \in 1..z[2 * lo - 1] |-> z[2 * lo]]
    ELSE InflateRange(z, lo, (lo + hi) \div 2) \o InflateRange(z, (lo + hi) \div 2 + 1, hi)

InflateBody(z) == InflateRange(z, 1, Len(z) \div 2)

Inflate(z) ==
    IF Len(z) < 6 \/ z[1] # 120 \/ z[2] # 156 \/ Len(z) % 2 # 0
    THEN [ok |-> FALSE, p |-> <<>>]
    ELSE [ok |-> TRUE, p |-> InflateBody(SubSeq(z, 3, Len(z) - 4))]

\* the ZlibDecoder over r.take(compressed_size), read for uncompressed_size bytes;
\* the decoder reports a corrupt stream as InvalidInput
Decompress(r, compressed_size, uncompressed_size) ==
    LET left  == Len(r.buf) - r.pos
        taken == IF compressed_size < left THEN compressed_size ELSE left
        after == [r EXCEPT !.pos = @ + taken]
    IN Let(Inflate(SubSeq(r.buf, r.pos + 1, r.pos + taken)), LAMBDA inf :
           IF ~inf.ok THEN Failed(after, "InvalidInput")
           ELSE IF Len(inf.p) < uncompressed_size THEN Failed(after, "UnexpectedEof")
           ELSE [c |-> after, v |-> SubSeq(inf.p, 1, uncompressed_size)])

read_compressed(c) ==
    Try(ReadI32(c), LAMBDA uncompressed_size :
    Try(ReadI32(uncompressed_size.c), LAMBDA compressed_size :
        IF uncompressed_size.v < 0 \/ compressed_size.v < 0
           \/ compressed_size.v >= uncompressed_size.v
        THEN Failed(compressed_size.c, "InvalidData")
        ELSE IF compressed_size.v = 0 THEN ReadExact(compressed_size.c, uncompressed_size.v)
        ELSE Decompress(compressed_size.c, compressed_size.v, uncompressed_size.v)))

(***************************************************************************)
(* save.rs: the Version enum and the screenshot formats.                   *)
(***************************************************************************)
Initial == 1

MaterialsStoredAsNames == 2

AddedOwnerData == 3

AddedDateTime == 4

AddedComponentsData == 5

AddedScreenshotData == 6

AddedGameVersionAndHostAndOwnerDataAndImprovedMaterials == 7

RenamedComponentDescriptors == 8

MIN_VERSION_READ == MaterialsStoredAsNames

MAX_VERSION_READ == RenamedComponentDescriptors

SCREENSHOT_NONE == 0

Png == 1

\* "BMC_Hologram", "BMC_Plastic", "BMC_Glow", "BMC_Metallic"
DefaultMaterials ==
    << <<66, 77, 67, 95, 72, 111, 108, 111, 103, 114, 97, 109>>,
       <<66, 77, 67, 95, 80, 108, 97, 115, 116, 105, 99>>,
       <<66, 77, 67, 95, 71, 108, 111, 119>>,
       <<66, 77, 67, 95, 77, 101, 116, 97, 108, 108, 105, 99>> >>

(***************************************************************************)
(* read.rs: the headers.  An Option is <<>> (None) or <<x>> (Some(x)).     *)
(***************************************************************************)
\* Some(f(r)?) when the version has the field, None otherwise
Since(version, first, c, x) == IF version >= first THEN Value(x, LAMBDA v : <<v>>)
                               ELSE [c |-> c, v |-> <<>>]

read_header1(c, version) ==
    Try(string(c), LAMBDA map :
    Try(string(map.c), LAMBDA author_name :
    Try(string(author_name.c), LAMBDA description :
    Try(uuid(description.c), LAMBDA author_id :
    Try(Since(version, AddedGameVersionAndHostAndOwnerDataAndImprovedMaterials, author_id.c,
              read_user_name_first(author_id.c)), LAMBDA host :
    Try(Since(version, AddedDateTime, host.c, date_time(host.c)), LAMBDA save_time :
    Try(ReadI32(save_time.c), LAMBDA brick_count :
        [c |-> brick_count.c,
         v |-> [map         |-> map.v,
                author      |-> [id |-> author_id.v, name |-> author_name.v],
                description |-> description.v,
                host        |-> host.v,
                save_time   |-> save_time.v,
                brick_count |-> IF brick_count.v < 0 THEN 0 ELSE brick_count.v]])))))))

WithCountZero(users) == [k \in 1..Len(users) |-> [user |-> users[k], brick_count |-> {}]]

\* a read_header2 that takes the default materials up to AddedOwnerData
ReadHeader2DefaultUpToOwnerData(c, version) ==
    Try(array(c, "string"), LAMBDA mods :
    Try(array(mods.c, "string"), LAMBDA brick_assets :
    Try(array(brick_assets.c, "color"), LAMBDA colors :
    Try(IF version > AddedOwnerData THEN array(colors.c, "string")
        ELSE [c |-> colors.c, v |-> DefaultMaterials], LAMBDA materials :
    Try(IF version >= AddedGameVersionAndHostAndOwnerDataAndImprovedMaterials
        THEN array(materials.c, "brick_owner")
        ELSE IF version >= AddedOwnerData
        THEN Value(array(materials.c, "user"), WithCountZero)
        ELSE [c |-> materials.c, v |-> <<>>], LAMBDA brick_owners :
        [c |-> brick_owners.c,
         v |-> [mods         |-> mods.v,
                brick_assets |-> brick_assets.v,
                colors       |-> colors.v,
                materials    |-> materials.v,
                brick_owners |-> brick_owners.v]])))))

read_header2(c, version) ==
    Try(array(c, "string"), LAMBDA mods :
    Try(array(mods.c, "string"), LAMBDA brick_assets :
    Try(array(brick_assets.c, "color"), LAMBDA colors :
    Try(IF version >= MaterialsStoredAsNames THEN array(colors.c, "string")
        ELSE [c |-> colors.c, v |-> DefaultMaterials], LAMBDA materials :
    Try(IF version >= AddedGameVersionAndHostAndOwnerDataAndImprovedMaterials
        THEN array(materials.c, "brick_owner")
        ELSE IF version >= AddedOwnerData
        THEN Value(array(materials.c, "user"), WithCountZero)
        ELSE [c |-> materials.c, v |-> <<>>], LAMBDA brick_owners :
        [c |-> brick_owners.c,
         v |-> [mods         |-> mods.v,
                brick_assets |-> brick_assets.v,
                colors       |-> colors.v,
                materials    |-> materials.v,
                brick_owners |-> brick_owners.v]])))))

(***************************************************************************)
(* read.rs: the Reader.  Its state type is the field stage.                *)
(***************************************************************************)
NoReader == [stage |-> "none"]

Dropped(reader, st) == [reader EXCEPT !.stage = "failed", !.st = st]

\* the screenshot_info of Reader::new
ReadScreenshotInfo(c, version) ==
    IF version < AddedScreenshotData THEN [c |-> c, v |-> <<>>]
    ELSE Try(ReadU8(c), LAMBDA format_raw :
             IF format_raw.v = SCREENSHOT_NONE THEN [c |-> format_raw.c, v |-> <<>>]
             ELSE IF format_raw.v # Png THEN Failed(format_raw.c, "InvalidData")
             ELSE Value(ReadU32(format_raw.c), LAMBDA len : <<[format |-> Png, len |-> len]>>))

\* Reader::new: the byte source after the read and the fields
ReadShared(r) ==
    Try(ReadExact(r, 3), LAMBDA magic :
        IF magic.v # MAGIC THEN Failed(magic.c, "InvalidData")
        ELSE
    Try(ReadU16(magic.c), LAMBDA version :
        IF version.v \notin Initial..RenamedComponentDescriptors
        THEN Failed(version.c, "InvalidData")
        ELSE
    Try(IF version.v >= AddedGameVersionAndHostAndOwnerDataAndImprovedMaterials
        THEN ReadU32(version.c) ELSE [c |-> version.c, v |-> U32Of(3642)], LAMBDA game_version :
    Try(read_compressed(game_version.c), LAMBDA section1 :
    Try(read_header1(ByteCursor(section1.v), version.v), LAMBDA header1 :
    Try(read_compressed(section1.c), LAMBDA section2 :
    Try(read_header2(ByteCursor(section2.v), version.v), LAMBDA header2 :
    Try(ReadScreenshotInfo(section2.c, version.v), LAMBDA screenshot_info :
        [c |-> screenshot_info.c,
         v |-> [version         |-> version.v,
                game_version    |-> game_version.v,
                header1         |-> header1.v,
                header2         |-> header2.v,
                screenshot_info |-> screenshot_info.v]]))))))))

\* Reader::new over the bytes buf
ReaderNew(buf) ==
    Let(ReadShared(ByteCursor(buf)), LAMBDA shared :
        IF shared.c.st # "ok" THEN [stage |-> "failed", st |-> shared.c.st]
        ELSE [stage           |-> "Init",
              st              |-> "ok",
              r               |-> shared.c,
              version         |-> shared.v.version,
              game_version    |-> shared.v.game_version,
              header1         |-> shared.v.header1,
              header2         |-> shared.v.header2,
              screenshot_info |-> shared.v.screenshot_info])

\* a u32 length against what the byte source still holds
Holds(r, len) == 31 \notin len /\ NatOf(len) <= Len(r.buf) - r.pos

screenshot_data(reader) ==
    IF reader.screenshot_info = <<>>
    THEN [reader |-> [reader EXCEPT !.stage = "AfterScreenshot"], screenshot |-> <<>>]
    ELSE IF ~Holds(reader.r, reader.screenshot_info[1].len)
    THEN [reader |-> Dropped(reader, "UnexpectedEof"), screenshot |-> <<>>]
    ELSE Let(ReadExact(reader.r, NatOf(reader.screenshot_info[1].len)), LAMBDA shot :
             [reader     |-> [reader EXCEPT !.stage = "AfterScreenshot", !.r = shot.c],
              screenshot |-> <<[format |-> reader.screenshot_info[1].format,
                                data   |-> shot.v]>>])

\* a skip_read that leaves the source where it is
SkipReadNothing(r, len) == r

\* io::copy of read.take(len) into a sink: stops at len bytes or at the end
skip_read(r, len) ==
    IF Holds(r, len) THEN [r EXCEPT !.pos = @ + NatOf(len)] ELSE [r EXCEPT !.pos = Len(r.buf)]

skip_screenshot(reader) ==
    IF reader.screenshot_info = <<>> THEN [reader EXCEPT !.stage = "AfterScreenshot"]
    ELSE [reader EXCEPT !.stage = "AfterScreenshot",
                        !.r = skip_read(reader.r, reader.screenshot_info[1].len)]

read_bricks(buf, version, header1, header2) ==
    [version         |-> version,
     r               |-> BitReaderNew(buf),
     brick_asset_num |-> Len(header2.brick_assets),
     color_num       |-> Len(header2.colors),
     material_num    |-> Len(header2.materials),
     brick_count     |-> header1.brick_count,
     index           |-> 0]

NoBricks == [index |-> -1]

\* Reader<R, AfterScreenshot>::bricks
bricks(reader) ==
    Let(read_compressed(reader.r), LAMBDA brick_section :
        IF brick_section.c.st # "ok"
        THEN [reader |-> Dropped(reader, brick_section.c.st), bricks_iter |-> NoBricks]
        ELSE [reader      |-> [reader EXCEPT !.stage = "AfterBricks", !.r = brick_section.c],
              bricks_iter |-> read_bricks(brick_section.v, reader.version, reader.header1,
                                          reader.header2)])

\* Reader<R, Init>::bricks
InitBricks(reader) == bricks(skip_screenshot(reader))

(***************************************************************************)
(* read.rs: the brick iterator.                                            *)
(***************************************************************************)
\* n - 1 on a nonzero u32
U32Dec(u) == (u \ {SetMin(u)}) \cup (0..(SetMin(u) - 1))

split_orientation(orientation) ==
    [direction |-> (orientation \div 4) % 6, rotation |-> orientation % 4]

\* the material of read_brick
ReadMaterial(self, r) ==
    IF self.version >= AddedGameVersionAndHostAndOwnerDataAndImprovedMaterials
    THEN ReadInt(r, U32Of(UMax(self.material_num, 2)))
    ELSE Let(ReadBit(r), LAMBDA flagged :
             IF flagged.v THEN ReadIntPacked(flagged.r) ELSE [r |-> flagged.r, v |-> U32Of(1)])

\* the color of read_brick; read_u32 goes through the BitReader's impl Read
ReadColor(self, r) ==
    Let(ReadBit(r), LAMBDA custom :
        IF ~custom.v
        THEN Let(ReadInt(custom.r, U32Of(self.color_num)), LAMBDA i :
                 [r |-> i.r, v |-> [mode |-> "Set", v |-> i.v]])
        ELSE Let(ReadU32(custom.r), LAMBDA rgba :
                 [r |-> rgba.c, v |-> [mode |-> "Custom", v |-> rgba.v]]))

\* ReadBricks::read_brick: the reader after the brick, the brick, and the bit
\* position at which the brick was taken to begin
read_brick(self) ==
    Let(EatByteAlign(self.r), LAMBDA r0 :
    Let(ReadInt(r0, U32Of(UMax(self.brick_asset_num, 2))), LAMBDA asset_name_index :
    Let(ReadBit(asset_name_index.r), LAMBDA sized :
    Let(IF sized.v THEN ReadPositiveIntVectorPacked(sized.r)
        ELSE [r |-> sized.r, v |-> <<{}, {}, {}>>], LAMBDA size :
    Let(ReadIntVectorPacked(size.r), LAMBDA position :
    Let(ReadInt(position.r, U32Of(24)), LAMBDA orientation :
    Let(ReadBit(orientation.r), LAMBDA collision :
    Let(ReadBit(collision.r), LAMBDA visibility :
    Let(ReadMaterial(self, visibility.r), LAMBDA material_index :
    Let(ReadColor(self, material_index.r), LAMBDA color :
    Let(IF self.version >= AddedOwnerData THEN ReadIntPacked(color.r)
        ELSE [r |-> color.r, v |-> {}], LAMBDA owner_index :
    Let(split_orientation(NatOf(orientation.v) % 256), LAMBDA split :
        [r     |-> owner_index.r,
         start |-> r0.pos,
         v     |-> IF owner_index.r.st # "ok" THEN <<>>
                   ELSE [asset_name_index |-> asset_name_index.v,
                         size             |-> size.v,
                         position         |-> position.v,
                         direction        |-> split.direction,
                         rotation         |-> split.rotation,
                         collision        |-> collision.v,
                         visibility       |-> visibility.v,
                         material_index   |-> material_index.v,
                         color            |-> color.v,
                         owner_index      |-> IF owner_index.v = {} THEN <<>>
                                              ELSE <<U32Dec(owner_index.v)>>]]))))))))))))

\* a next that tests index <= brick_count
NextThroughCount(self) ==
    IF ~(self.index <= self.brick_count) THEN [self |-> self, item |-> [kind |-> "None"]]
    ELSE Let(read_brick(self), LAMBDA result :
             IF result.r.st = "panic"
             THEN [self |-> [self EXCEPT !.r = result.r],
                   item |-> [kind |-> "panic", start |-> result.start]]
             ELSE IF result.r.st = "ok"
             THEN [self |-> [self EXCEPT !.r = result.r, !.index = @ + 1],
                   item |-> [kind |-> "Ok", start |-> result.start, v |-> result.v]]
             ELSE [self |-> [self EXCEPT !.r = result.r, !.index = self.brick_count],
                   item |-> [kind |-> "Err", start |-> result.start]])

\* Iterator::next for ReadBricks
next(self) ==
    IF ~(self.index < self.brick_count) THEN [self |-> self, item |-> [kind |-> "None"]]
    ELSE Let(read_brick(self), LAMBDA result :
             IF result.r.st = "panic"
             THEN [self |-> [self EXCEPT !.r = result.r],
                   item |-> [kind |-> "panic", start |-> result.start]]
             ELSE IF result.r.st = "ok"
             THEN [self |-> [self EXCEPT !.r = result.r, !.index = @ + 1],
                   item |-> [kind |-> "Ok", start |-> result.start, v |-> result.v]]
             ELSE [self |-> [self EXCEPT !.r = result.r, !.index = self.brick_count],
                   item |-> [kind |-> "Err", start |-> result.start]])

\* bricks.collect::<Result<_, _>>()
RECURSIVE Collect(_, _)
Collect(self, acc) ==
    Let(next(self), LAMBDA n :
        IF n.item.kind = "None" THEN [st |-> "ok", v |-> acc]
        ELSE IF n.item.kind = "Ok" THEN Collect(n.self, Append(acc, n.item.v))
        ELSE [st |-> n.item.kind, v |-> acc])

(***************************************************************************)
(* read.rs: the components.  BitReader::pos and BitReader::seek give and   *)
(* set the bit position.                                                   *)
(***************************************************************************)
\* name.replace("BTD", "BCD")
ReplaceBTD(name) ==
    [i \in 1..Len(name) |->
        IF i >= 2 /\ i < Len(name) /\ name[i - 1] = 66 /\ name[i] = 84 /\ name[i + 1] = 68
        THEN 67 ELSE name[i]]

\* a seek past data_len bits
SeekBits(compressed, data_len) == [compressed EXCEPT !.pos = @ + NatOf(data_len)]

\* compressed.seek(data_pos + (data_len << 3)); a length of 2^27 bytes or more
\* leaves the position past the end
Seek(compressed, data_len) ==
    [compressed EXCEPT !.pos = IF data_len \cap (27..31) = {} THEN @ + 8 * NatOf(data_len)
                               ELSE 8 * Len(compressed.buf) + 8]

RECURSIVE ComponentsLoop(_, _, _, _)
ComponentsLoop(compressed, version, left, components) ==
    IF left = 0 THEN [c |-> compressed, v |-> components]
    ELSE Let(string(EatByteAlign(compressed)), LAMBDA name :
             IF name.c.st # "ok" THEN Failed(name.c, "panic")
             ELSE Let(ReadU32(name.c), LAMBDA data_len :
                      IF data_len.c.st # "ok" THEN Failed(data_len.c, "panic")
                      ELSE ComponentsLoop(Seek(data_len.c, data_len.v), version, left - 1,
                               Append(components,
                                      [name     |-> IF version < RenamedComponentDescriptors
                                                    THEN ReplaceBTD(name.v) ELSE name.v,
                                       data_len |-> data_len.v,
                                       data_pos |-> data_len.c.pos]))))

ComponentsEmpty ==
    [compressed |-> BitReaderNew(<<>>), version |-> Initial, brick_count |-> 0,
     components |-> <<>>]

ComponentsRead(buf, version, header1) ==
    Try(ReadI32(BitReaderNew(buf)), LAMBDA filled :
    Try(ComponentsLoop(filled.c, version, IF filled.v < 0 THEN 0 ELSE filled.v, <<>>),
        LAMBDA loop :
        [c |-> loop.c,
         v |-> [compressed |-> loop.c, version |-> version,
                brick_count |-> header1.brick_count, components |-> loop.v]]))

\* Reader<R, AfterBricks>::components
components(reader) ==
    IF reader.version < AddedComponentsData
    THEN [reader |-> [reader EXCEPT !.stage = "AfterComponents"], iter |-> ComponentsEmpty]
    ELSE Let(read_compressed(reader.r), LAMBDA section :
             IF section.c.st # "ok"
             THEN [reader |-> Dropped(reader, section.c.st), iter |-> ComponentsEmpty]
             ELSE Let(ComponentsRead(section.v, reader.version, reader.header1), LAMBDA read :
                      IF read.c.st # "ok"
                      THEN [reader |-> Dropped([reader EXCEPT !.r = section.c], read.c.st),
                            iter   |-> ComponentsEmpty]
                      ELSE [reader |-> [reader EXCEPT !.stage = "AfterComponents",
                                                      !.r = section.c],
                            iter   |-> read.v]))

Users(owners) == [k \in 1..Len(owners) |-> owners[k].user]

\* Reader<R, Init>::into_write_data; a missing save_time becomes the time of the
\* call; r is the byte source as the reader leaves it when it is dropped
into_write_data(reader) ==
    Let(screenshot_data(reader), LAMBDA a :
        IF a.reader.stage = "failed" THEN [st |-> a.reader.st]
        ELSE
    Let(bricks(a.reader), LAMBDA b :
        IF b.reader.stage = "failed" THEN [st |-> b.reader.st]
        ELSE
    Let(Collect(b.bricks_iter, <<>>), LAMBDA collected :
        IF collected.st # "ok" THEN [st |-> collected.st]
        ELSE [st   |-> "ok",
              r    |-> b.reader.r,
              data |-> [map          |-> b.reader.header1.map,
                        author       |-> b.reader.header1.author,
                        description  |-> b.reader.header1.description,
                        save_time    |-> IF b.reader.header1.save_time = <<>>
                                         THEN [now |-> TRUE]
                                         ELSE b.reader.header1.save_time[1],
                        mods         |-> b.reader.header2.mods,
                        brick_assets |-> b.reader.header2.brick_assets,
                        colors       |-> b.reader.header2.colors,
                        materials    |-> b.reader.header2.materials,
                        brick_owners |-> Users(b.reader.header2.brick_owners),
                        bricks       |-> collected.v]])))

(***************************************************************************)
(* The save pipeline: a WriteData is written by write_save and the bytes   *)
(* are read back by a Reader; a Reader also opens files of the game.       *)
(***************************************************************************)
MaxBricks == 2

NilUuid == [k \in 1..16 |-> 0]

SomeUuid == [k \in 1..16 |-> 10 * k + 1]

\* 0xFF0000FF and two more colors
Opaque == (0..7) \cup (24..31)

ColorTable == <<Opaque, U32Of(8421504), (8..15) \cup (24..31)>>

Tables ==
    { [brick_assets |-> << <<65>> >>,
       colors       |-> SubSeq(ColorTable, 1, 1),
       materials    |-> << <<77>> >>,
       brick_owners |-> <<>>],
      [brick_assets |-> << <<65>>, <<66>> >>,
       colors       |-> SubSeq(ColorTable, 1, 2),
       materials    |-> << <<72>>, <<77>> >>,
       brick_owners |-> << [id |-> SomeUuid, name |-> <<111>>] >>],
      [brick_assets |-> << <<65>>, <<66>>, <<67>> >>,
       colors       |-> ColorTable,
       materials    |-> << <<72>>, <<77>>, <<71>> >>,
       brick_owners |-> << [id |-> SomeUuid, name |-> <<111>>],
                          [id |-> NilUuid, name |-> <<112, 113>>] >>] }

BrickPlain ==
    [asset_name_index |-> {}, size |-> <<{}, {}, {}>>, position |-> <<0, 0, 0>>,
     direction |-> 4, rotation |-> 0, collision |-> TRUE, visibility |-> TRUE,
     material_index |-> {}, color |-> [mode |-> "Set", v |-> {}], owner_index |-> <<>>]

BrickCustom ==
    [asset_name_index |-> U32Of(1), size |-> <<U32Of(5), U32Of(5), U32Of(2)>>,
     position |-> <<1, -1, 200>>, direction |-> 0, rotation |-> 3, collision |-> FALSE,
     visibility |-> FALSE, material_index |-> {},
     color |-> [mode |-> "Custom", v |-> Opaque], owner_index |-> <<{}>>]

BrickOwned ==
    [asset_name_index |-> {}, size |-> <<{}, {}, {}>>, position |-> <<0, 0, -5>>,
     direction |-> 5, rotation |-> 2, collision |-> TRUE, visibility |-> FALSE,
     material_index |-> U32Of(1), color |-> [mode |-> "Set", v |-> U32Of(1)],
     owner_index |-> <<U32Of(1)>>]

Bricks == {BrickPlain, BrickCustom, BrickOwned}

BrickLists == UNION {[1..k -> Bricks] : k \in 0..MaxBricks}

WithTables(t, list) ==
    [map          |-> <<80>>,
     author       |-> [id |-> NilUuid, name |-> <<74>>],
     description  |-> <<>>,
     save_time    |-> [secs |-> 0, nanos |-> 0],
     mods         |-> <<>>,
     brick_assets |-> t.brick_assets,
     colors       |-> t.colors,
     materials    |-> t.materials,
     brick_owners |-> t.brick_owners,
     bricks       |-> list]

HeaderBase == WithTables(CHOOSE t \in Tables : Len(t.colors) = 2, <<BrickPlain>>)

HeaderVariants ==
    { [HeaderBase EXCEPT !.map = <<233>>],
      [HeaderBase EXCEPT !.save_time = [secs |-> 1, nanos |-> 150]],
      [HeaderBase EXCEPT !.save_time = [secs |-> -1, nanos |-> 0]],
      [HeaderBase EXCEPT !.mods = << <<109>> >>],
      [HeaderBase EXCEPT !.author = [id |-> SomeUuid, name |-> <<74, 111>>],
                         !.description = <<100>>] }

WriteDatas == {WithTables(t, list) : t \in Tables, list \in BrickLists} \cup HeaderVariants

\* the files of the game that a Reader is given: the sections of the data in
\* the layout of a version, with a screenshot and a components section
Screenshots == {<<>>, << <<137, 80, 78>> >>, << <<1, 0, 0, 0, 0, 0, 0, 0, 0>> >>}

ComponentSections ==
    { I32LE(0),
      I32LE(1) \o I32LE(4) \o <<66, 84, 68, 0>> \o I32LE(1) \o <<7>> }

Fixtures ==
    {[version |-> AddedDateTime, shot |-> <<>>, comps |-> <<>>]}
    \cup {[version |-> AddedComponentsData, shot |-> <<>>, comps |-> c] : c \in ComponentSections}
    \cup {[version |-> AddedScreenshotData, shot |-> sh, comps |-> c] :
              sh \in Screenshots, c \in ComponentSections}

\* the screenshot of a file: the format byte, then the length and the bytes
WriteScreenshot(w, fx) ==
    IF fx.version < AddedScreenshotData THEN w
    ELSE IF fx.shot = <<>> THEN [w EXCEPT !.sink = @ \o <<SCREENSHOT_NONE>>]
    ELSE [w EXCEPT !.sink = @ \o <<Png>> \o LEBytes(Len(fx.shot[1]), 4) \o fx.shot[1]]

WriteComponents(w, fx) ==
    IF fx.version < AddedComponentsData THEN w
    ELSE CompressedFinish(w, [uncompressed |-> fx.comps, st |-> "ok"])

GameFile(d, fx) ==
    WriteComponents(
        WriteBrickSection(
            WriteScreenshot(
                CompressedFinish(
                    CompressedFinish([SinkNew EXCEPT !.sink = MAGIC \o U16LE(fx.version)],
                                     WriteHeader1(d)),
                    WriteHeader2(d)),
                fx),
            d),
        fx)

NoRead == [reader |-> NoReader, src |-> "none"]

Opened(buf, src, fx) ==
    LET n == ReaderNew(buf)
    IN [reader     |-> n,
        src        |-> src,
        fx         |-> fx,
        calls      |-> <<"new">>,
        init_pos   |-> IF n.stage = "Init" THEN n.r.pos ELSE 0,
        screenshot |-> <<>>,
        comps      |-> ComponentsEmpty]

NoCall == [op |-> "none"]

CallIdle == call = NoCall /\ ret = NoCall

PipeIdle ==
    /\ CallIdle
    /\ data = <<>>
    /\ wres = [st |-> "none"]
    /\ rd = NoRead
    /\ it = NoBricks
    /\ yielded = <<>>
    /\ rt = [st |-> "none"]

DoWriteSave ==
    /\ phase = "idle"
    /\ wres.st = "none"
    /\ rd.src = "none"
    /\ wres' = write_save(data)
    /\ UNCHANGED <<overflow_checks, bitvars, callvars, data, rd, it, yielded, rt>>

DoReaderNew ==
    /\ phase = "idle"
    /\ wres.st = "ok"
    /\ rd.src = "none"
    /\ rd' = Opened(wres.sink, "written", [version |-> LATEST_VERSION, shot |-> <<>>,
                                           comps |-> <<>>])
    /\ UNCHANGED <<overflow_checks, bitvars, callvars, data, wres, it, yielded, rt>>

DoReaderNewGame ==
    /\ phase = "idle"
    /\ wres.st = "none"
    /\ rd.src = "none"
    /\ \E fx \in Fixtures :
          /\ GameFile(data, fx).st = "ok"
          /\ rd' = Opened(GameFile(data, fx).sink, "game", fx)
    /\ UNCHANGED <<overflow_checks, bitvars, callvars, data, wres, it, yielded, rt>>

DoScreenshotData ==
    /\ rd.reader.stage = "Init"
    /\ LET x == screenshot_data(rd.reader)
       IN rd' = [rd EXCEPT !.reader = x.reader, !.screenshot = x.screenshot,
                           !.calls = Append(@, "screenshot_data")]
    /\ UNCHANGED <<overflow_checks, bitvars, callvars, data, wres, it, yielded, rt>>

DoInitBricks ==
    /\ rd.reader.stage = "Init"
    /\ LET x == InitBricks(rd.reader)
       IN /\ rd' = [rd EXCEPT !.reader = x.reader, !.calls = Append(@, "bricks")]
          /\ it' = x.bricks_iter
    /\ UNCHANGED <<overflow_checks, bitvars, callvars, data, wres, yielded, rt>>

DoBricks ==
    /\ rd.reader.stage = "AfterScreenshot"
    /\ LET x == bricks(rd.reader)
       IN /\ rd' = [rd EXCEPT !.reader = x.reader, !.calls = Append(@, "bricks")]
          /\ it' = x.bricks_iter
    /\ UNCHANGED <<overflow_checks, bitvars, callvars, data, wres, yielded, rt>>

\* next() is called again after it has ended, this many times at most
MaxIdlePolls == 2

IdlePolls == Cardinality({k \in 1..Len(yielded) : yielded[k].kind # "Ok"})

\* the program has aborted in next(), or the iterator was polled enough
IterEnded ==
    /\ yielded # <<>>
    /\ yielded[Len(yielded)].kind = "panic" \/ IdlePolls >= MaxIdlePolls

DoNext ==
    /\ it.index >= 0
    /\ ~IterEnded
    /\ LET n == next(it)
       IN /\ it' = n.self
          /\ yielded' = Append(yielded, n.item)
    /\ UNCHANGED <<overflow_checks, bitvars, callvars, data, wres, rd, rt>>

DoComponents ==
    /\ rd.reader.stage = "AfterBricks"
    /\ LET x == components(rd.reader)
       IN rd' = [rd EXCEPT !.reader = x.reader, !.comps = x.iter, !.calls = Append(@, "components")]
    /\ UNCHANGED <<overflow_checks, bitvars, callvars, data, wres, it, yielded, rt>>

DoIntoWriteData ==
    /\ rd.reader.stage = "Init"
    /\ rt' = into_write_data(rd.reader)
    /\ rd' = [rd EXCEPT !.reader.stage = "consumed", !.calls = Append(@, "into_write_data")]
    /\ UNCHANGED <<overflow_checks, bitvars, callvars, data, wres, it, yielded>>

Init ==
    /\ overflow_checks \in BOOLEAN
    /\ bw = BitWriterNew
    /\ log = <<>>
    /\ br = BitReaderNew(<<>>)
    /\ got = <<>>
    /\ phase = "idle"
    /\ data \in WriteDatas
    /\ wres = [st |-> "none"]
    /\ rd = NoRead
    /\ it = NoBricks
    /\ yielded = <<>>
    /\ rt = [st |-> "none"]
    /\ CallIdle

Next ==
    \/ DoWriteSave
    \/ DoReaderNew
    \/ DoReaderNewGame
    \/ DoScreenshotData
    \/ DoInitBricks
    \/ DoBricks
    \/ DoNext
    \/ DoComponents
    \/ DoIntoWriteData

Spec == Init /\ [][Next]_vars

(***************************************************************************)
(* The claims over the save pipeline.                                      *)
(***************************************************************************)
\* the brick indices of d are valid for its tables
ValidIndices(d) ==
    \A k \in 1..Len(d.bricks) :
        /\ U32Lt(d.bricks[k].asset_name_index, U32Of(Len(d.brick_assets)))
        /\ U32Lt(d.bricks[k].material_index, U32Of(Len(d.materials)))
        /\ d.bricks[k].color.mode = "Set"
              => U32Lt(d.bricks[k].color.v, U32Of(Len(d.colors)))
        /\ d.bricks[k].owner_index # <<>>
              => U32Lt(d.bricks[k].owner_index[1], U32Of(Len(d.brick_owners)))

\* a equals d in every field, save_time to 100 ns
SameData(a, d) ==
    /\ [a EXCEPT !.save_time = 0] = [d EXCEPT !.save_time = 0]
    /\ DOMAIN a.save_time = {"secs", "nanos"}
    /\ a.save_time.secs = d.save_time.secs
    /\ a.save_time.nanos \div 100 = d.save_time.nanos \div 100

\* C1: for every WriteData with valid brick indices, the empty brick list
\* included, write_save succeeds, Reader::new and into_write_data on the bytes
\* succeed, and the record read equals the record written (save_time to 100 ns).
C1_RoundTrip ==
    ValidIndices(data) =>
        /\ wres.st \in {"none", "ok"}
        /\ rd.src = "written" /\ rd.calls = <<"new">> => rd.reader.stage = "Init"
        /\ rd.src = "written" /\ rt.st # "none" => rt.st = "ok" /\ SameData(rt.data, data)

\* C2: the version word that write_save puts after the magic is MAX_VERSION_READ.
C2_VersionWord ==
    wres.st = "ok" =>
        /\ SubSeq(wres.sink, 1, 3) = MAGIC
        /\ SubSeq(wres.sink, 4, 5) = U16LE(MAX_VERSION_READ)

\* the moves of the reader's stage; a failed call drops the reader and
\* into_write_data consumes it
StageMoves ==
    { <<"none", "Init">>, <<"none", "failed">>,
      <<"Init", "AfterScreenshot">>, <<"Init", "AfterBricks">>,
      <<"AfterScreenshot", "AfterBricks">>, <<"AfterBricks", "AfterComponents">>,
      <<"Init", "failed">>, <<"AfterScreenshot", "failed">>, <<"AfterBricks", "failed">>,
      <<"Init", "consumed">> }

StageForward ==
    rd'.reader.stage = rd.reader.stage \/ <<rd.reader.stage, rd'.reader.stage>> \in StageMoves

\* where the brick section of the opened file begins: after the screenshot
BrickSectionAt ==
    rd.init_pos + (IF rd.reader.screenshot_info = <<>> THEN 0
                   ELSE NatOf(rd.reader.screenshot_info[1].len))

SectionU == I32FromLE(SubSeq(rd.reader.r.buf, BrickSectionAt + 1, BrickSectionAt + 4))

SectionC == I32FromLE(SubSeq(rd.reader.r.buf, BrickSectionAt + 5, BrickSectionAt + 8))

Stored == IF SectionC = 0 THEN SectionU ELSE SectionC

\* the opened file holds its screenshot and a valid brick section after it
WellFormed ==
    /\ rd.reader.stage \notin {"none", "failed"}
    /\ BrickSectionAt + 8 <= Len(rd.reader.r.buf)
    /\ SectionU >= 1
    /\ 0 <= SectionC
    /\ SectionC < SectionU
    /\ BrickSectionAt + 8 + Stored <= Len(rd.reader.r.buf)

\* the bytes of the brick stream of d
BrickPayload(d) == BitWriterFinish(WriteBricks(BitWriterNew, <<>>, d.bricks, d).s).w

\* what the iterator self yields in n calls of next
RECURSIVE Yields(_, _)
Yields(self, n) ==
    IF n = 0 THEN <<>>
    ELSE Let(next(self), LAMBDA y : <<y.item>> \o Yields(y.self, n - 1))

Last(calls) == calls[Len(calls)]

\* bricks() ends after the brick section of the file, whichever way it was called
PathsAgree ==
    rd.src = "game" /\ Last(rd.calls) = "bricks" /\ WellFormed =>
        /\ rd.reader.stage = "AfterBricks"
        /\ rd.reader.r.pos = BrickSectionAt + 8 + Stored
        /\ it.r.buf = BrickPayload(data)
        /\ yielded = Yields(read_bricks(BrickPayload(data), rd.reader.version,
                                        rd.reader.header1, rd.reader.header2),
                            Len(yielded))

\* C3: the stage of a reader only moves forward along Init, AfterScreenshot,
\* AfterBricks, AfterComponents; and on a well-formed file bricks() called on
\* Init and bricks() called after screenshot_data() both end at the offset
\* after the brick section and yield the bricks of that section.
C3_StagesForwardPathsAgree == [][StageForward]_vars /\ []PathsAgree

\* bricks() called on Init passed a screenshot and the iterator yielded a brick
C3_Witness ==
    /\ rd.src = "game"
    /\ rd.calls = <<"new", "bricks">>
    /\ rd.reader.screenshot_info # <<>>
    /\ rd.reader.stage = "AfterBricks"
    /\ rd.reader.r.pos > rd.init_pos + NatOf(rd.reader.screenshot_info[1].len)
    /\ Len(yielded) >= 1
    /\ yielded[1].kind = "Ok"

\* the calls of next() before the k-th that returned an item of the kinds
Before(k, kinds) == {j \in 1..(k - 1) : yielded[j].kind \in kinds}

\* C17: the brick iterator yields at most brick_count items; once next() has
\* returned an error, and once it has returned brick_count bricks, every
\* later call of next() returns None.
C17_IteratorLatches ==
    it.index >= 0 =>
        /\ Cardinality(Before(Len(yielded) + 1, {"Ok", "Err"})) <= it.brick_count
        /\ \A k \in 1..Len(yielded) :
               \/ Before(k, {"Err"}) # {}
               \/ Cardinality(Before(k, {"Ok"})) = it.brick_count
               => yielded[k].kind = "None"

\* every brick of a file with bricks was yielded and next() was called twice more
C17_Witness ==
    /\ it.index >= 0
    /\ it.brick_count >= 1
    /\ Len(yielded) = it.brick_count + 2
    /\ \A k \in 1..it.brick_count : yielded[k].kind = "Ok"
    /\ yielded[it.brick_count + 1].kind = "None"
    /\ yielded[it.brick_count + 2].kind = "None"

\* C24: into_write_data on an Init reader consumes the whole file: after it
\* returns successfully for a well-formed file of any supported version,
\* every section of the file (the screenshot bytes, the brick section and,
\* for versions from AddedComponentsData on, the component section) has been
\* read from the byte source.
C24_WholeFileConsumed ==
    rd.src = "game" /\ rt.st = "ok" => rt.r.pos = Len(rt.r.buf)

\* C9: every brick of the stream is written at a bit position divisible by 8,
\* and the k-th brick is decoded from the position at which it was written.
C9_BricksAligned ==
    /\ wres.st = "ok" => \A k \in 1..Len(wres.starts) : wres.starts[k] % 8 = 0
    /\ rd.src = "written" =>
          \A k \in 1..Len(yielded) :
              yielded[k].kind # "None" =>
                  /\ yielded[k].start % 8 = 0
                  /\ k <= Len(wres.starts)
                  /\ yielded[k].start = wres.starts[k]

\* C10: every section header (U, C) that write_save emits has U >= 1 and
\* 0 <= C < U.
C10_SectionHeaders ==
    wres.st = "ok" =>
        /\ Len(wres.hdrs) = 3
        /\ \A k \in 1..Len(wres.hdrs) :
              /\ wres.hdrs[k][1] >= 1
              /\ 0 <= wres.hdrs[k][2]
              /\ wres.hdrs[k][2] < wres.hdrs[k][1]

(***************************************************************************)
(* The bit cursor driven by a caller: up to MaxOps calls on a fresh        *)
(* BitWriter, finish, then the corresponding reads in the same order on a  *)
(* BitReader over the bytes produced (the shape of the test                *)
(* bit_reader_writer_equal_order).                                         *)
(***************************************************************************)
Bits == {FALSE, TRUE}

PackedValues ==
    {U32Of(0), U32Of(1), U32Of(127), U32Of(128), U32Of(398475),
     0..27, {28}, {31}, 0..31}

\* <<value, max>> with max >= 2 and value < max
IntPairs ==
    {<<U32Of(v), U32Of(2)>> : v \in 0..1} \cup
    {<<U32Of(v), U32Of(3)>> : v \in 0..2} \cup
    {<<U32Of(v), U32Of(4)>> : v \in 0..3} \cup
    {<<U32Of(v), U32Of(24)>> : v \in {0, 16, 23}} \cup
    {<<{}, {31}>>, <<0..30, {31}>>,
     <<{}, {0, 31}>>, <<{0}, {0, 31}>>, <<{31}, {0, 31}>>,
     <<{}, 0..31>>, <<{31}, 0..31>>, <<1..31, 0..31>>}

IntVectors ==
    {<<0, 0, 0>>, <<1, -1, 0>>, <<2147483647, -2147483647, 64>>,
     <<MinI32, 0, 0>>, <<-64, 5, MinI32>>}

PositiveIntVectors == {<<U32Of(0), U32Of(0), U32Of(0)>>, <<U32Of(10), 0..31, U32Of(200)>>}

\* bit p of the stream the writer has produced so far, the pending byte included
StreamBit(b, p) ==
    LET byte == IF (p \div 8) + 1 <= Len(b.w) THEN b.w[(p \div 8) + 1] ELSE b.cur
    IN (byte \div (2^(p % 8))) % 2 = 1

StreamBits(b, p0, p1) == [i \in 1..(p1 - p0) |-> StreamBit(b, p0 + i - 1)]

Call(op, arg, b1) ==
    /\ phase = "write"
    /\ Len(log) < MaxOps
    /\ bw' = b1
    /\ log' = Append(log, [op |-> op, arg |-> arg, st |-> b1.st, pos |-> WPos(b1),
                           bits |-> StreamBits(b1, WPos(bw), WPos(b1))])
    /\ phase' = IF b1.st = "panic" THEN "aborted" ELSE "write"
    /\ UNCHANGED <<overflow_checks, br, got, pipevars, callvars>>

DoWriteBit == \E bit \in Bits : Call("bit", bit, WriteBit(bw, bit))

DoByteAlign == Call("align", FALSE, ByteAlign(bw))

DoWriteInt == \E p \in IntPairs : Call("int", p, WriteInt(bw, p[1], p[2]))

DoWriteIntPacked == \E v \in PackedValues : Call("packed", v, WriteIntPacked(bw, v))

DoWriteIntVectorPacked ==
    \E v \in IntVectors : Call("ivec", v, WriteIntVectorPacked(bw, v))

DoWritePositiveIntVectorPacked ==
    \E v \in PositiveIntVectors : Call("pvec", v, WritePositiveIntVectorPacked(bw, v))

DoFinish ==
    /\ phase = "write"
    /\ bw' = BitWriterFinish(bw)
    /\ br' = BitReaderNew(bw'.w)
    /\ phase' = "read"
    /\ UNCHANGED <<overflow_checks, log, got, pipevars, callvars>>

Reply(op, res, raw) ==
    /\ phase = "read"
    /\ Len(got) < Len(log)
    /\ log[Len(got) + 1].op = op
    /\ br' = res.r
    /\ got' = Append(got, [v |-> res.v, raw |-> raw, st |-> res.r.st, pos |-> res.r.pos])
    /\ phase' = IF res.r.st = "panic" THEN "aborted" ELSE "read"
    /\ UNCHANGED <<overflow_checks, bw, log, pipevars, callvars>>

DoReadBit == Reply("bit", ReadBit(br), <<>>)

DoEatByteAlign == Reply("align", [r |-> EatByteAlign(br), v |-> FALSE], <<>>)

DoReadInt == Reply("int", ReadInt(br, log[Len(got) + 1].arg[2]), <<>>)

DoReadIntPacked == Reply("packed", ReadIntPacked(br), <<>>)

\* raw: the three varints the same bits hold, read as unsigned
DoReadIntVectorPacked ==
    Reply("ivec", ReadIntVectorPacked(br), ReadPositiveIntVectorPacked(br).v)

DoReadPositiveIntVectorPacked ==
    Reply("pvec", ReadPositiveIntVectorPacked(br), <<>>)

BitsInit ==
    /\ overflow_checks \in BOOLEAN
    /\ bw = BitWriterNew
    /\ log = <<>>
    /\ br = BitReaderNew(<<>>)
    /\ got = <<>>
    /\ phase = "write"
    /\ PipeIdle

BitsNext ==
    \/ DoWriteBit
    \/ DoByteAlign
    \/ DoWriteInt
    \/ DoWriteIntPacked
    \/ DoWriteIntVectorPacked
    \/ DoWritePositiveIntVectorPacked
    \/ DoFinish
    \/ DoReadBit
    \/ DoEatByteAlign
    \/ DoReadInt
    \/ DoReadIntPacked
    \/ DoReadIntVectorPacked
    \/ DoReadPositiveIntVectorPacked

SpecBits == BitsInit /\ [][BitsNext]_vars

\* write_bits(src, n) and, with n = 8 * src.len(), the impl Write of BitWriter
BitRuns ==
    { <<<<0>>, 1>>, <<<<165>>, 3>>, <<<<165>>, 8>>, <<<<7>>, 8>>, <<<<255, 1>>, 9>>,
      <<<<66, 84>>, 16>> }

DoWriteBits == \E run \in BitRuns : Call("bits", run, WriteBits(bw, run[1], run[2]))

\* read_bits(dst, n) into a zeroed dst and, with n = 8 * dst.len(), the impl
\* Read of BitReader
DoReadBits ==
    Reply("bits", ReadBits(br, [k \in 1..Len(log[Len(got) + 1].arg[1]) |-> 0], log[Len(got) + 1].arg[2]),
          <<>>)

\* runs of bits between single bits and alignments
RunsNext ==
    \/ DoWriteBits
    \/ DoWriteBit
    \/ DoByteAlign
    \/ DoFinish
    \/ DoReadBits
    \/ DoReadBit
    \/ DoEatByteAlign

SpecRuns == BitsInit /\ [][RunsNext]_vars

\* the n low bits of src, in bytes
LowBits(src, n) ==
    [k \in 1..Len(src) |->
        IF 8 * k <= n THEN src[k]
        ELSE IF 8 * (k - 1) >= n THEN 0
        ELSE src[k] % (2^(n - 8 * (k - 1)))]

\* C27: read_bits(dst, n) copies the next n bits into dst, the lowest bit
\* first, and advances the bit cursor by exactly n, so that a value written
\* with write_bits (or through the impl Write) and followed by further fields
\* is read back with read_bits (or through the impl Read) with the cursor
\* left at the first bit of the field that follows.
C27_ReadBitsAdvancesByN ==
    \A i \in {k \in 1..Len(got) : log[k].op = "bits"} :
        /\ got[i].st = "ok"
        /\ got[i].v = LowBits(log[i].arg[1], log[i].arg[2])
        /\ got[i].pos = (IF i = 1 THEN 0 ELSE got[i - 1].pos) + log[i].arg[2]
        /\ got[i].pos = log[i].pos

(***************************************************************************)
(* Claims about the bit cursor, checked under SpecBits.                    *)
(***************************************************************************)
Logged(op) == {i \in 1..Len(log) : log[i].op = op}

Answered(op) == {i \in Logged(op) : i <= Len(got)}

\* C4 (as stated): for every max >= 2 and every v < max, max above 2^31
\* included, write_int(v, max) succeeds and read_int(max) on the written bits
\* returns v and consumes exactly the bits that were written.
C4_WriteIntReadInt ==
    /\ \A i \in Logged("int") : log[i].st = "ok"
    /\ \A i \in Answered("int") :
           /\ got[i].st = "ok"
           /\ got[i].v = log[i].arg[1]
           /\ got[i].pos = log[i].pos

\* C5: for any sequence of write_bit, byte_align and write_int_packed calls
\* followed by finish, the corresponding read_bit, eat_byte_align and
\* read_int_packed calls in the same order return the same bits and the same
\* u32 values and leave the reader where the writer was, and the first bit
\* written is the least significant bit of byte 0.
C5_SameOrder ==
    (\A i \in 1..Len(log) : log[i].op \in {"bit", "align", "packed"}) =>
        /\ \A i \in 1..Len(log) : log[i].st = "ok"
        /\ \A i \in 1..Len(got) :
               /\ got[i].st = "ok"
               /\ got[i].pos = log[i].pos
               /\ log[i].op # "align" => got[i].v = log[i].arg
        /\ (phase = "read" /\ Len(log) >= 1 /\ log[1].op = "bit") =>
               ((br.buf[1] % 2 = 1) <=> log[1].arg)

C5_Witness ==
    /\ Len(got) = 2
    /\ log[1].op = "bit" /\ log[1].arg
    /\ log[2].op = "packed" /\ log[2].arg = 0..31
    /\ got[2].v = 0..31

\* the varint the format gives a signed component: (|v| << 1) | (v > 0)
SignedVarint(v) ==
    {k + 1 : k \in U32Of(IF v < 0 THEN -v ELSE v)} \cup (IF v > 0 THEN {0} ELSE {})

InI32Magnitude(v) == \A k \in 1..3 : v[k] # MinI32

\* C6 (as stated): for every triple of 32-bit signed values the three varints
\* written are (|v| << 1) | (v > 0), and read_int_vector_packed returns the triple.
C6_EveryTriple ==
    /\ \A i \in Logged("ivec") : log[i].st = "ok"
    /\ \A i \in Answered("ivec") :
           /\ got[i].v = log[i].arg
           /\ got[i].pos = log[i].pos

\* C6 (amended): for every triple whose components are above i32::MIN the three
\* varints written are (|v| << 1) | (v > 0), so (1, -1, 0) is written as 3, 2, 0,
\* and read_int_vector_packed on the written bits returns the triple.
C6_TripleAboveMin ==
    /\ \A i \in Logged("ivec") : InI32Magnitude(log[i].arg) => log[i].st = "ok"
    /\ \A i \in Answered("ivec") : InI32Magnitude(log[i].arg) =>
           /\ got[i].st = "ok"
           /\ got[i].raw = [k \in 1..3 |-> SignedVarint(log[i].arg[k])]
           /\ got[i].v = log[i].arg
           /\ got[i].pos = log[i].pos
           /\ log[i].arg = <<1, -1, 0>> => got[i].raw = <<U32Of(3), U32Of(2), U32Of(0)>>

C6_Witness ==
    \E i \in Answered("ivec") :
        /\ log[i].arg = <<2147483647, -2147483647, 64>>
        /\ got[i].v = log[i].arg
        /\ i = 2 /\ log[1].op = "bit"

\* C7 (as stated): write_int with max = 3 writes 0, 1, 2 as the bit strings
\* 00, 10, 01, and with max = 4 writes exactly 2 bits.
C7_MaxThreeTwoBits ==
    \A i \in Logged("int") :
        /\ log[i].arg[2] = U32Of(3) =>
               log[i].bits = (CASE log[i].arg[1] = U32Of(0) -> <<FALSE, FALSE>>
                                [] log[i].arg[1] = U32Of(1) -> <<TRUE, FALSE>>
                                [] log[i].arg[1] = U32Of(2) -> <<FALSE, TRUE>>)
        /\ log[i].arg[2] = U32Of(4) => Len(log[i].bits) = 2

\* C7 (amended): write_int with max = 3 writes 0, 1, 2 as the bit strings
\* 00, 1, 01 (first written bit first): the value 1 takes a single bit; and
\* with max = 4 it writes exactly 2 bits for every value in 0..3.
C7_MaxThreeShortOne ==
    \A i \in Logged("int") :
        /\ log[i].arg[2] = U32Of(3) =>
               log[i].bits = (CASE log[i].arg[1] = U32Of(0) -> <<FALSE, FALSE>>
                                [] log[i].arg[1] = U32Of(1) -> <<TRUE>>
                                [] log[i].arg[1] = U32Of(2) -> <<FALSE, TRUE>>)
        /\ log[i].arg[2] = U32Of(4) =>
               /\ Len(log[i].bits) = 2
               /\ log[i].bits = <<0 \in log[i].arg[1], 1 \in log[i].arg[1]>>

C7_Witness ==
    /\ Len(log) = 2
    /\ log[1].op = "int" /\ log[1].arg = <<U32Of(1), U32Of(3)>>
    /\ log[2].op = "int" /\ log[2].arg = <<U32Of(3), U32Of(4)>>

\* the position of the highest set bit of v, counted from 1; 0 for v = 0
BitsNeeded(v) == IF v = {} THEN 0 ELSE 1 + CHOOSE k \in v : \A j \in v : j <= k

\* C8 (as stated): write_int_packed(v) advances the writer by exactly
\* 8 * ceil(bits_needed_to_represent(v) / 7) bits, v = 0 included.
C8_PackedLengthEveryValue ==
    \A i \in Logged("packed") :
        Len(log[i].bits) = 8 * ((BitsNeeded(log[i].arg) + 6) \div 7)

\* C8 (amended): write_int_packed(v) advances the writer by exactly
\* 8 * ceil(bits_needed_to_represent(v) / 7) bits for every v > 0, and by 8
\* bits for v = 0.
C8_PackedLengthOneGroupForZero ==
    \A i \in Logged("packed") :
        /\ log[i].st = "ok"
        /\ Len(log[i].bits) =
               IF log[i].arg = {} THEN 8
               ELSE 8 * ((BitsNeeded(log[i].arg) + 6) \div 7)

C8_Witness ==
    /\ Len(log) = 2
    /\ log[1].op = "packed" /\ log[1].arg = {}
    /\ log[2].op = "packed" /\ log[2].arg = 0..31 /\ Len(log[2].bits) = 40

(***************************************************************************)
(* read_new.rs, the reader that lib.rs exports.  Its errors are the        *)
(* variants of Error; an io::Error inside Error::Io keeps its kind.        *)
(***************************************************************************)
\* skip: read_exact in chunks of at most MAX_READ bytes
skip(c, len) == Value(ReadExact(c, len), LAMBDA b : <<>>)

\* the test of the header that compressed_section and skip_compressed share
ValidSectionHeader(len, compressed_len) ==
    /\ 1 <= len
    /\ len < I32Max - 1
    /\ 0 <= compressed_len
    /\ compressed_len < len

compressed_section(c) ==
    Try(ReadI32(c), LAMBDA len :
    Try(ReadI32(len.c), LAMBDA compressed_len :
        IF ~ValidSectionHeader(len.v, compressed_len.v)
        THEN Failed(compressed_len.c, "InvalidCompressedSection")
        ELSE IF compressed_len.v = 0 THEN ReadExact(compressed_len.c, len.v)
        ELSE Decompress(compressed_len.c, compressed_len.v, len.v)))

skip_compressed(c) ==
    Try(ReadI32(c), LAMBDA len :
    Try(ReadI32(len.c), LAMBDA compressed_len :
        IF ~ValidSectionHeader(len.v, compressed_len.v)
        THEN Failed(compressed_len.c, "InvalidCompressedSection")
        ELSE skip(compressed_len.c, IF compressed_len.v = 0 THEN len.v ELSE compressed_len.v)))

\* Version::first_game_version: todo!() for every version but AddedDateTime
first_game_version(c, version) ==
    IF version = AddedDateTime THEN [c |-> c, v |-> U32Of(3642)] ELSE Failed(c, "panic")

\* read_string: todo!()
read_string(c) == Failed(c, "panic")

\* the loop of read_array; each is the closure given to it.  read_uuid and
\* read_datetime decode as uuid and date_time of read.rs do.
RECURSIVE ReadArrayLoop(_, _, _, _)
ReadArrayLoop(c, each, len, vec) ==
    IF len <= 0 THEN [c |-> c, v |-> vec]
    ELSE Try(CASE each = "read_string" -> read_string(c)
               [] each = "read_u32" -> ReadU32(c)
               [] each = "read_with_brick_count" ->
                      Try(uuid(c), LAMBDA user_id :
                      Try(read_string(user_id.c), LAMBDA user_name :
                      Value(ReadU32(user_name.c), LAMBDA brick_count :
                          [user |-> [id |-> user_id.v, name |-> user_name.v],
                           brick_count |-> brick_count])))
               [] each = "read_without_brick_count" ->
                      Try(uuid(c), LAMBDA user_id :
                      Value(read_string(user_id.c), LAMBDA user_name :
                          [user |-> [id |-> user_id.v, name |-> user_name],
                           brick_count |-> {}])),
             LAMBDA item : ReadArrayLoop(item.c, each, len - 1, Append(vec, item.v)))

\* Vec::with_capacity(len as usize) overflows the capacity for a negative len
read_array(c, each) ==
    Try(ReadI32(c), LAMBDA len :
        IF len.v < 0 THEN Failed(len.c, "panic")
        ELSE ReadArrayLoop(len.c, each, len.v, <<>>))

\* read_header1 of read_new.rs: c is the file; the value comes with the file
\* after the section
NewReadHeader1(c, file_version) ==
    Try(compressed_section(c), LAMBDA section :
    Try(read_string(ByteCursor(section.v)), LAMBDA map :
    Try(read_string(map.c), LAMBDA author_name :
    Try(read_string(author_name.c), LAMBDA description :
    Try(uuid(description.c), LAMBDA author_id :
    Try(IF file_version >= AddedGameVersionAndHostAndOwnerDataAndImprovedMaterials
        THEN Try(read_string(author_id.c), LAMBDA name :
             Value(uuid(name.c), LAMBDA id : <<[id |-> id, name |-> name.v]>>))
        ELSE [c |-> author_id.c, v |-> <<>>], LAMBDA host :
    Try(Since(file_version, AddedDateTime, host.c, date_time(host.c)), LAMBDA time_saved :
    Try(ReadI32(time_saved.c), LAMBDA brick_count :
        IF brick_count.v < 0 THEN Failed(brick_count.c, "panic")
        ELSE [c |-> section.c,
              v |-> [map         |-> map.v,
                     author      |-> [id |-> author_id.v, name |-> author_name.v],
                     description |-> description.v,
                     host        |-> host.v,
                     time_saved  |-> time_saved.v,
                     brick_count |-> brick_count.v]]))))))))

\* read_header2 of read_new.rs
NewReadHeader2(c, file_version) ==
    Try(compressed_section(c), LAMBDA section :
    Try(read_array(ByteCursor(section.v), "read_string"), LAMBDA mods :
    Try(read_array(mods.c, "read_string"), LAMBDA brick_assets :
    Try(read_array(brick_assets.c, "read_u32"), LAMBDA colors :
    Try(IF file_version >= MaterialsStoredAsNames THEN read_array(colors.c, "read_string")
        ELSE [c |-> colors.c, v |-> DefaultMaterials], LAMBDA materials :
    Try(IF file_version >= AddedGameVersionAndHostAndOwnerDataAndImprovedMaterials
        THEN read_array(materials.c, "read_with_brick_count")
        ELSE IF file_version >= AddedOwnerData
        THEN read_array(materials.c, "read_without_brick_count")
        ELSE Failed(materials.c, "panic"), LAMBDA brick_owners :
        [c |-> section.c,
         v |-> [mods         |-> mods.v,
                brick_assets |-> brick_assets.v,
                colors       |-> colors.v,
                materials    |-> materials.v,
                brick_owners |-> brick_owners.v]]))))))

read_image_format(c) ==
    Try(ReadU8(c), LAMBDA byte :
        IF byte.v = SCREENSHOT_NONE THEN [c |-> byte.c, v |-> <<>>]
        ELSE IF byte.v # Png THEN Failed(byte.c, "UnknownScreenshotFormat")
        ELSE [c |-> byte.c, v |-> <<Png>>])

\* a test that lets the version just below the window through
VersionTooOldByTwo(version_raw) == version_raw + 1 < MIN_VERSION_READ

\* version_raw < MIN_VERSION_READ.into()
VersionTooOld(version_raw) == version_raw < MIN_VERSION_READ

\* Reader<R, Init>::new of read_new.rs over the bytes buf: the file after the
\* read (its st is "ok", the Error returned, or "panic") and the fields
NewReaderNew(buf) ==
    Let(ReadExact(ByteCursor(buf), 3), LAMBDA magic :
        IF magic.c.st = "UnexpectedEof" \/ magic.v # MAGIC
        THEN Failed(magic.c, "InvalidMagic")
        ELSE
    Try(ReadU16(magic.c), LAMBDA version_raw :
        IF VersionTooOld(version_raw.v) THEN Failed(version_raw.c, "VersionTooOld")
        ELSE IF version_raw.v > MAX_VERSION_READ THEN Failed(version_raw.c, "VersionTooNew")
        ELSE IF version_raw.v \notin Initial..RenamedComponentDescriptors
        THEN Failed(version_raw.c, "VersionUnknown")
        ELSE
    Try(IF version_raw.v >= AddedGameVersionAndHostAndOwnerDataAndImprovedMaterials
        THEN ReadU32(version_raw.c)
        ELSE first_game_version(version_raw.c, version_raw.v), LAMBDA game_version :
    Try(NewReadHeader1(game_version.c, version_raw.v), LAMBDA header1 :
    Try(NewReadHeader2(header1.c, version_raw.v), LAMBDA header2 :
    Try(read_image_format(header2.c), LAMBDA format :
    Try(IF format.v = <<>> THEN [c |-> format.c, v |-> <<>>]
        ELSE Value(ReadI32(format.c),
                   LAMBDA len : <<[format |-> format.v[1],
                                   len    |-> IF len < 0 THEN 0 ELSE len]>>),
        LAMBDA screenshot_header :
        [c |-> screenshot_header.c,
         v |-> [file_version      |-> version_raw.v,
                game_version      |-> game_version.v,
                header1           |-> header1.v,
                header2           |-> header2.v,
                screenshot_header |-> screenshot_header.v]])))))))

(***************************************************************************)
(* The functions of the codec called on their own: call is the function    *)
(* and its arguments, ret is what it returned.  A second call may take     *)
(* what the first one returned.                                            *)
(***************************************************************************)
MaxPayload == 4

PayloadBytes == {0, 7, 255}

Zeros(n) == [k \in 1..n |-> 0]

\* the payloads of a section: every short one, and runs that the encoder shortens
Payloads ==
    UNION {[1..n -> PayloadBytes] : n \in 0..MaxPayload} \cup {Zeros(n) : n \in {8, 9, 12}}

\* nothing was called yet
FirstCall == phase = "idle" /\ call = NoCall

\* a call on what the call before it returned
After(first) == phase = "idle" /\ call.op = first

\* a call changes nothing but call and ret
CallFrame == UNCHANGED <<overflow_checks, bitvars, pipevars>>

\* a Compressed that was given the payload p, finished into an empty sink
CallCompressedFinish ==
    /\ FirstCall
    /\ \E p \in Payloads :
          /\ call' = [op |-> "Compressed::finish", payload |-> p]
          /\ ret' = CompressedFinish(SinkNew, CompressedWrite(CompressedNew, p))
    /\ CallFrame

\* bytes that follow a section in a file
Trailers == {<<>>, <<9>>}

\* read_compressed on the section that Compressed::finish wrote
CallReadCompressedBack ==
    /\ After("Compressed::finish")
    /\ \E t \in Trailers :
          /\ call' = [op |-> "read_compressed", buf |-> ret.sink \o t,
                      payload |-> call.payload]
          /\ ret' = read_compressed(ByteCursor(ret.sink \o t))
    /\ CallFrame

\* a section in the raw form: the header (U, 0) and U bytes after it
RawForm(buf, U) ==
    /\ Len(buf) >= 8 + U
    /\ SubSeq(buf, 1, 8) = I32LE(U) \o I32LE(0)

\* C11: Compressed::finish writes (|P|, 0) and the raw bytes of P when the
\* compressed length is not below |P|, and (|P|, compressed length) and the
\* compressed bytes otherwise; read_compressed accepts the raw form U = 4,
\* C = 0 followed by 4 bytes and returns those 4 bytes.
C11_RawOrCompressedForm ==
    /\ call.op = "Compressed::finish" =>
          /\ ret.st = "ok"
          /\ ret.sink = I32LE(Len(call.payload))
                \o (IF Len(ZlibEncode(call.payload)) >= Len(call.payload)
                    THEN I32LE(0) \o call.payload
                    ELSE I32LE(Len(ZlibEncode(call.payload))) \o ZlibEncode(call.payload))
    /\ call.op = "read_compressed" /\ RawForm(call.buf, 4) =>
          /\ ret.c.st = "ok"
          /\ ret.v = SubSeq(call.buf, 9, 12)
          /\ ret.c.pos = 12

\* a payload of 4 bytes was written raw and read back
C11_Witness ==
    /\ call.op = "read_compressed"
    /\ Len(call.payload) = 4
    /\ RawForm(call.buf, 4)
    /\ ret.v = call.payload

\* the section headers given to the readers: the values around each bound
HeaderU == {MinI32, -1, 0, 1, 2, 4, I32Max - 2, I32Max - 1, I32Max}

HeaderC == {MinI32, -1, 0, 1, 3, 4, 5, I32Max}

SectionPayloads == {<<>>, <<1, 2>>, <<1, 2, 3, 4, 5>>, ZlibEncode(<<0, 0, 7>>)}

SectionFiles == {I32LE(u) \o I32LE(c) \o p : u \in HeaderU, c \in HeaderC, p \in SectionPayloads}

HeaderOf(buf) == <<I32FromLE(SubSeq(buf, 1, 4)), I32FromLE(SubSeq(buf, 5, 8))>>

CallReadCompressed ==
    /\ FirstCall
    /\ \E f \in SectionFiles :
          /\ call' = [op |-> "read_compressed", buf |-> f, payload |-> <<>>]
          /\ ret' = read_compressed(ByteCursor(f))
    /\ CallFrame

CallCompressedSection ==
    /\ FirstCall
    /\ \E f \in SectionFiles :
          /\ call' = [op |-> "compressed_section", buf |-> f]
          /\ ret' = compressed_section(ByteCursor(f))
    /\ CallFrame

CallSkipCompressed ==
    /\ FirstCall
    /\ \E f \in SectionFiles :
          /\ call' = [op |-> "skip_compressed", buf |-> f]
          /\ ret' = skip_compressed(ByteCursor(f))
    /\ CallFrame

\* the call ended with the error that rejects a section header
HeaderRejected ==
    IF call.op = "read_compressed" THEN ret.c.st = "InvalidData"
    ELSE ret.c.st = "InvalidCompressedSection"

SectionReaders == {"read_compressed", "compressed_section", "skip_compressed"}

\* C12: reading a section header (U, C) fails with the invalid-section error
\* exactly when U > 0 and 0 <= C < U does not hold, for every 32-bit U and C,
\* and a rejected header leaves the payload unread.
C12_RejectedIffInvalid ==
    call.op \in SectionReaders /\ Len(call.buf) >= 8 =>
        /\ HeaderRejected <=>
              ~(HeaderOf(call.buf)[1] > 0 /\ 0 <= HeaderOf(call.buf)[2]
                /\ HeaderOf(call.buf)[2] < HeaderOf(call.buf)[1])
        /\ HeaderRejected => ret.c.pos = 8

\* the bytes of a String in a section
Str(str) == write_string(CompressedNew, str).uncompressed

\* a section that holds the payload p
Section(p) == CompressedFinish(SinkNew, CompressedWrite(CompressedNew, p)).sink

\* the fields of a Header1 as a file of the given version lays them out
Header1Bytes(version, brick_count) ==
    Str(<<77>>) \o Str(<<65, 98>>) \o Str(<<>>) \o SomeUuid
    \o (IF version >= AddedGameVersionAndHostAndOwnerDataAndImprovedMaterials
        THEN Str(<<72>>) \o SomeUuid ELSE <<>>)
    \o (IF version >= AddedDateTime THEN I64LE(10000001) ELSE <<>>)
    \o I32LE(brick_count)

\* a Header2 with no string in it
Header2Empty(version) ==
    I32LE(0) \o I32LE(0) \o I32LE(1) \o <<1, 2, 3, 255>>
    \o (IF version >= MaterialsStoredAsNames THEN I32LE(0) ELSE <<>>)
    \o (IF version >= AddedOwnerData THEN I32LE(0) ELSE <<>>)

\* a Header2 with one entry in every list the version has
Header2Bytes(version) ==
    I32LE(1) \o Str(<<109>>) \o I32LE(1) \o Str(<<80, 66>>) \o I32LE(1) \o <<1, 2, 3, 255>>
    \o (IF version >= MaterialsStoredAsNames THEN I32LE(1) \o Str(<<66, 77>>) ELSE <<>>)
    \o (IF version >= AddedOwnerData
        THEN I32LE(1) \o SomeUuid \o Str(<<79>>)
             \o (IF version >= AddedGameVersionAndHostAndOwnerDataAndImprovedMaterials
                 THEN I32LE(5) ELSE <<>>)
        ELSE <<>>)

\* a file of the given version up to its screenshot byte, laid out for
\* version; equal to version in a well-formed file
VersionFile(version, layout, header2) ==
    MAGIC \o U16LE(version)
    \o (IF version >= AddedGameVersionAndHostAndOwnerDataAndImprovedMaterials
        THEN I32LE(3642) ELSE <<>>)
    \o Section(Header1Bytes(layout, 1)) \o Section(header2) \o <<SCREENSHOT_NONE>>

Versions == Initial..RenamedComponentDescriptors

VersionFiles ==
    {VersionFile(v, v, Header2Bytes(v)) : v \in Versions}
    \cup {VersionFile(v, v, Header2Empty(v)) : v \in Versions}

\* envelopes: the magic, the version word, and a few bytes after them
Magics == {MAGIC, <<66, 82, 88>>, <<98, 82, 83>>, <<66, 82>>, <<>>}

VersionWords == {0, 1, 2, 8, 9, 255, 256, 65535}

Envelopes ==
    {m \o U16LE(w) \o b : m \in Magics, w \in VersionWords, b \in {<<>>, <<8, 0, 0, 0>>}}
    \cup {MAGIC \o <<2>>}

ReaderFiles == VersionFiles \cup Envelopes

\* Reader::new of read_new.rs on a file
CallNewReaderNew ==
    /\ FirstCall
    /\ \E f \in ReaderFiles :
          /\ call' = [op |-> "read_new::Reader::new", buf |-> f]
          /\ ret' = NewReaderNew(f)
    /\ CallFrame

\* the file starts with the magic and holds a version word
HasMagic == Len(call.buf) >= 5 /\ SubSeq(call.buf, 1, 3) = MAGIC

VersionWord == FromLE(SubSeq(call.buf, 4, 5))

EnvelopeErrors == {"InvalidMagic", "VersionTooOld", "VersionTooNew"}

\* C13: Reader::new of read_new.rs returns InvalidMagic when the first three
\* bytes are not the magic, VersionTooOld for a version word below
\* MIN_VERSION_READ and VersionTooNew for one above MAX_VERSION_READ, each
\* before any byte of a section is read; a version word inside the window
\* gets none of the three errors.
C13_EnvelopeRejected ==
    call.op = "read_new::Reader::new" =>
        /\ Len(call.buf) < 3 \/ SubSeq(call.buf, 1, Len(MAGIC)) # MAGIC =>
              ret.c.st = "InvalidMagic" /\ ret.c.pos <= 3
        /\ HasMagic /\ VersionWord < MIN_VERSION_READ =>
              ret.c.st = "VersionTooOld" /\ ret.c.pos = 5
        /\ HasMagic /\ VersionWord > MAX_VERSION_READ =>
              ret.c.st = "VersionTooNew" /\ ret.c.pos = 5
        /\ HasMagic /\ VersionWord \in MIN_VERSION_READ..MAX_VERSION_READ =>
              ret.c.st \notin EnvelopeErrors

\* the version word MAX_VERSION_READ + 1 was rejected
C13_Witness ==
    /\ call.op = "read_new::Reader::new"
    /\ HasMagic
    /\ VersionWord = MAX_VERSION_READ + 1
    /\ ret.c.st = "VersionTooNew"

\* Reader::new of read.rs on a file
CallReaderNew ==
    /\ FirstCall
    /\ \E f \in VersionFiles :
          /\ call' = [op |-> "read::Reader::new", buf |-> f]
          /\ ret' = ReadShared(ByteCursor(f))
    /\ CallFrame

\* the save time of the Header1 that the call returned
TimeSaved ==
    IF call.op = "read::Reader::new" THEN ret.v.header1.save_time
    ELSE ret.v.header1.time_saved

\* C14: for every file version in [MIN_VERSION_READ, MAX_VERSION_READ] the
\* headers of a well-formed file are decoded by read.rs and by read_new.rs:
\* the decoding completes, the host is present exactly from
\* AddedGameVersionAndHostAndOwnerDataAndImprovedMaterials on, the save time
\* exactly from AddedDateTime on, a brick owner's brick_count is the one read
\* from that version on and 0 before it, and there are no brick owners
\* before AddedOwnerData.
C14_HeadersGatedByVersion ==
    /\ call.op \in {"read::Reader::new", "read_new::Reader::new"}
    /\ call.buf \in VersionFiles
    /\ VersionWord \in MIN_VERSION_READ..MAX_VERSION_READ
    => /\ ret.c.st = "ok"
       /\ ret.v.header1.host # <<>> <=>
              VersionWord >= AddedGameVersionAndHostAndOwnerDataAndImprovedMaterials
       /\ TimeSaved # <<>> <=> VersionWord >= AddedDateTime
       /\ \A k \in 1..Len(ret.v.header2.brick_owners) :
              ret.v.header2.brick_owners[k].brick_count =
                  IF VersionWord >= AddedGameVersionAndHostAndOwnerDataAndImprovedMaterials
                  THEN U32Of(5) ELSE {}
       /\ VersionWord < AddedOwnerData => ret.v.header2.brick_owners = <<>>
       /\ call.buf = VersionFile(VersionWord, VersionWord, Header2Bytes(VersionWord))
          /\ VersionWord >= AddedOwnerData => Len(ret.v.header2.brick_owners) = 1

\* a Header2 of the AddedOwnerData layout without its materials list
Header2NoMaterials ==
    I32LE(0) \o I32LE(1) \o Str(<<80, 66>>) \o I32LE(1) \o <<1, 2, 3, 255>>
    \o I32LE(1) \o SomeUuid \o Str(<<79>>)

Header2Payloads ==
    {Header2Bytes(v) : v \in Versions} \cup {Header2Empty(v) : v \in Versions}
    \cup {Header2NoMaterials}

\* read_header2 of read.rs on the payload of a section
CallReadHeader2 ==
    /\ FirstCall
    /\ \E version \in Versions, p \in Header2Payloads :
          /\ call' = [op |-> "read::read_header2", version |-> version, buf |-> p]
          /\ ret' = read_header2(ByteCursor(p), version)
    /\ CallFrame

\* read_header2 of read_new.rs on the section that holds the payload
CallNewReadHeader2 ==
    /\ FirstCall
    /\ \E version \in Versions, p \in Header2Payloads :
          /\ call' = [op |-> "read_new::read_header2", version |-> version, buf |-> p]
          /\ ret' = NewReadHeader2(ByteCursor(Section(p)), version)
    /\ CallFrame

Header2Readers == {"read::read_header2", "read_new::read_header2"}

\* "BMC_Hologram", "BMC_Plastic", "BMC_Glow", "BMC_Metallic"
FourMaterials ==
    << <<66, 77, 67, 95, 72, 111, 108, 111, 103, 114, 97, 109>>,
       <<66, 77, 67, 95, 80, 108, 97, 115, 116, 105, 99>>,
       <<66, 77, 67, 95, 71, 108, 111, 119>>,
       <<66, 77, 67, 95, 77, 101, 116, 97, 108, 108, 105, 99>> >>

\* C15 (as stated): decoding a Header2 section at file version AddedOwnerData
\* reads no materials list from the section and yields exactly the four
\* default materials.
C15_DefaultMaterialsAtOwnerData ==
    /\ call.op \in Header2Readers
    /\ call.version = AddedOwnerData
    /\ call.buf = Header2NoMaterials
    => ret.c.st = "ok" /\ ret.v.materials = FourMaterials

\* C15 (amended): read.rs decodes a Header2 section at file version Initial,
\* the version before MaterialsStoredAsNames, without reading a materials
\* list and yields exactly the four default materials; at AddedOwnerData
\* read.rs and read_new.rs read the materials list from the section, so a
\* section with an empty list yields no materials, and read.rs yields the
\* one material of a section that lists one.
C15_DefaultMaterialsBeforeNames ==
    /\ call.op = "read::read_header2" /\ call.version = Initial
       /\ call.buf \in {Header2Bytes(Initial), Header2Empty(Initial)}
       => /\ ret.c.st = "ok"
          /\ ret.c.pos = Len(call.buf)
          /\ ret.v.materials = FourMaterials
    /\ call.op \in Header2Readers /\ call.version = AddedOwnerData
       /\ call.buf = Header2Empty(AddedOwnerData)
       => ret.c.st = "ok" /\ ret.v.materials = <<>>
    /\ call.op = "read::read_header2" /\ call.version = AddedOwnerData
       /\ call.buf = Header2Bytes(AddedOwnerData)
       => ret.c.st = "ok" /\ ret.v.materials = << <<66, 77>> >>

\* a section of the Initial layout was decoded at Initial
C15_Witness ==
    /\ call.op = "read::read_header2"
    /\ call.version = Initial
    /\ call.buf = Header2Bytes(Initial)
    /\ ret.v.materials = FourMaterials

\* save.rs: Direction and Rotation as their u8 values
ZPositive == 4

Deg0 == 0

Directions == 0..5

Rotations == 0..3

\* combine_orientation on a direction and a rotation, and split_orientation
\* on the byte it returned
CallOrientation ==
    /\ FirstCall
    /\ \E d \in Directions, r \in Rotations :
          /\ call' = [op |-> "combine_orientation", direction |-> d, rotation |-> r]
          /\ ret' = [orientation |-> combine_orientation(d, r),
                     split       |-> split_orientation(combine_orientation(d, r))]
    /\ CallFrame

\* C16: for each of the 6 directions d and 4 rotations r,
\* combine_orientation(d, r) is below 24 and split_orientation gives (d, r)
\* back; (ZPositive, Deg0) combines to 16.
C16_OrientationRoundTrip ==
    call.op = "combine_orientation" =>
        /\ ret.orientation < 24
        /\ ret.split = [direction |-> call.direction, rotation |-> call.rotation]
        /\ call.direction = ZPositive /\ call.rotation = Deg0 => ret.orientation = 16

C16_Witness ==
    /\ call.op = "combine_orientation"
    /\ call.direction = ZPositive
    /\ call.rotation = Deg0
    /\ ret.orientation = 16
    /\ ret.split = [direction |-> ZPositive, rotation |-> Deg0]

\* brick lists whose bricks take no custom colour
PlainLists == {[k \in 1..n |-> BrickPlain] : n \in 0..MaxBricks}

\* the iterator over the brick section of d, with a Header1 that announces
\* brick_count bricks, collected into a Result
CallCollect ==
    /\ FirstCall
    /\ \E list \in PlainLists, brick_count \in 0..(MaxBricks + 1) :
          /\ call' = [op |-> "ReadBricks::collect", held |-> Len(list),
                      brick_count |-> brick_count]
          /\ ret' = Collect(read_bricks(BrickPayload([HeaderBase EXCEPT !.bricks = list]),
                                        LATEST_VERSION, [brick_count |-> brick_count],
                                        HeaderBase), <<>>)
    /\ CallFrame

\* C18: when the brick section holds fewer bricks than Header1 announces,
\* the brick iterator returns an I/O error for the brick that is not there;
\* the program does not abort.
C18_ShortSectionIsError ==
    call.op = "ReadBricks::collect" /\ call.held < call.brick_count =>
        ret.st = "Err" /\ Len(ret.v) = call.held

\* the code points of the strings: ASCII (NUL and DEL included), two- and
\* three-byte ones, the last of the BMP, and one above it
MaxChars == 2

CodePoints == {0, 65, 127, 128, 233, 8364, 65535, 128512}

Strings == UNION {[1..n -> CodePoints] : n \in 0..MaxChars}

\* write_string on a string, into an empty buffer
CallWriteString ==
    /\ FirstCall
    /\ \E str \in Strings :
          /\ call' = [op |-> "write_string", s |-> str]
          /\ ret' = write_string(CompressedNew, str)
    /\ CallFrame

\* string (read.rs) on the bytes that write_string wrote, with bytes after them
CallStringBack ==
    /\ After("write_string")
    /\ ret.st = "ok"
    /\ \E t \in Trailers :
          /\ call' = [op |-> "string", s |-> call.s, written |-> ret.uncompressed,
                      buf |-> ret.uncompressed \o t]
          /\ ret' = string(ByteCursor(ret.uncompressed \o t))
    /\ CallFrame

IsBmp(str) == \A i \in 1..Len(str) : str[i] <= 65535

\* the string as 16-bit little-endian units
Units(str) == [k \in 1..(2 * Len(str)) |->
                  IF k % 2 = 1 THEN str[(k + 1) \div 2] % 256 ELSE str[k \div 2] \div 256]

\* C19: for every string s of BMP code points write_string writes the ASCII
\* form (the prefix len + 1, the bytes, a 0 byte) exactly when every code
\* point has 7 bits, and otherwise the UCS-2 form, whose prefix is minus the
\* number of 16-bit units after it, the terminating 0 unit included; the
\* string decoder on the written bytes returns s and consumes exactly them.
C19_StringForms ==
    /\ call.op = "write_string" /\ IsBmp(call.s) =>
          /\ ret.st = "ok"
          /\ ret.uncompressed =
                 IF IsAscii(call.s) THEN I32LE(Len(call.s) + 1) \o call.s \o <<0>>
                 ELSE I32LE(-(Len(call.s) + 1)) \o Units(call.s) \o <<0, 0>>
    /\ call.op = "string" /\ IsBmp(call.s) =>
          /\ ret.c.st = "ok"
          /\ ret.v = call.s
          /\ ret.c.pos = Len(call.written)

\* C20: for every string with a code point above U+FFFF write_string returns
\* an error and writes no 16-bit unit for that code point: only the prefix
\* and the units of the code points before it.
C20_NonBmpIsError ==
    call.op = "write_string" /\ ~IsBmp(call.s) =>
        /\ ret.st = "InvalidInput"
        /\ \E k \in 1..Len(call.s) :
              /\ call.s[k] > 65535
              /\ IsBmp(SubSeq(call.s, 1, k - 1))
              /\ Len(ret.uncompressed) = 4 + 2 * (k - 1)

\* the indices that the bricks of a written record take, past every table
IndexValues == 0..3

IndexBrick(a, m, c) ==
    [BrickPlain EXCEPT !.asset_name_index = U32Of(a), !.material_index = U32Of(m),
                       !.color = [mode |-> "Set", v |-> U32Of(c)]]

NoTables ==
    [brick_assets |-> <<>>, colors |-> SubSeq(ColorTable, 1, 2), materials |-> <<>>,
     brick_owners |-> <<>>]

IndexDatas ==
    {WithTables(t, <<IndexBrick(a, m, c)>>) :
         t \in Tables \cup {NoTables}, a \in IndexValues, m \in IndexValues,
         c \in IndexValues}

\* write_save on a record of one brick
CallWriteSave ==
    /\ FirstCall
    /\ \E d \in IndexDatas :
          /\ call' = [op |-> "write_save", data |-> d]
          /\ ret' = write_save(d)
    /\ CallFrame

\* some brick of d has an index at or past the encoded maximum of its table
OutOfRange(d) ==
    \E k \in 1..Len(d.bricks) :
        \/ ~U32Lt(d.bricks[k].asset_name_index, U32Of(UMax(Len(d.brick_assets), 2)))
        \/ ~U32Lt(d.bricks[k].material_index, U32Of(UMax(Len(d.materials), 2)))
        \/ /\ d.bricks[k].color.mode = "Set"
           /\ ~U32Lt(d.bricks[k].color.v, U32Of(Len(d.colors)))

\* C21: write_save returns an InvalidInput error whenever some brick has
\* asset_name_index >= max(brick_assets.len(), 2), or material_index >=
\* max(materials.len(), 2), or a Set color index >= colors.len().
C21_OutOfRangeIsInvalidInput ==
    call.op = "write_save" /\ OutOfRange(call.data) => ret.st = "InvalidInput"

\* Reader::new and into_write_data on the bytes that write_save wrote
CallIntoWriteData ==
    /\ After("write_save")
    /\ ret.st = "ok"
    /\ call' = [op |-> "into_write_data", data |-> call.data, buf |-> ret.sink]
    /\ ret' = Let(ReaderNew(ret.sink), LAMBDA reader :
                  IF reader.stage # "Init" THEN [st |-> reader.st]
                  ELSE into_write_data(reader))
    /\ CallFrame

\* the color table of d has an entry, every Set color of d is in it, and the
\* asset and material indices are below their encoded maximum
SetInRange(d) ==
    /\ Len(d.colors) >= 1
    /\ ~OutOfRange(d)

\* C22: write_save succeeds for every WriteData whose color table has at
\* least one entry and whose bricks use Set(i) colors with i < colors.len(),
\* a one-entry color table with Set(0) included, and for brick_assets and
\* materials tables of length 0 or 1; the decoder then reads the same Set
\* index back.
C22_SmallTablesWrite ==
    /\ call.op = "write_save" /\ SetInRange(call.data) => ret.st = "ok"
    /\ call.op = "into_write_data" /\ SetInRange(call.data) =>
          /\ ret.st = "ok"
          /\ Len(ret.data.bricks) = Len(call.data.bricks)
          /\ \A k \in 1..Len(call.data.bricks) :
                 ret.data.bricks[k].color = call.data.bricks[k].color

\* the version word of the written bytes
WrittenVersion == FromLE(SubSeq(ret.sink, 4, 5))

\* the first brick that a decoder of the given version reads from the brick
\* stream of d
FirstBrick(d, version) ==
    next(read_bricks(BrickPayload(d), version, [brick_count |-> 1], d)).item

\* C26: the brick encoder of write_save writes the material_index of a brick
\* as a bounded integer with maximum max(materials.len(), 2), the form that
\* the decoder reads for versions from
\* AddedGameVersionAndHostAndOwnerDataAndImprovedMaterials on, not as a flag
\* bit and an optional varint; and it is the form that the decoder selects
\* for the version word that write_save emits.
C26_MaterialBoundedInt ==
    call.op = "write_save" /\ ret.st = "ok" /\ SetInRange(call.data) =>
        /\ FirstBrick(call.data,
                      AddedGameVersionAndHostAndOwnerDataAndImprovedMaterials).kind = "Ok"
        /\ FirstBrick(call.data,
                      AddedGameVersionAndHostAndOwnerDataAndImprovedMaterials).v
               = call.data.bricks[1]
        /\ FirstBrick(call.data, WrittenVersion).kind = "Ok"
        /\ FirstBrick(call.data, WrittenVersion).v = call.data.bricks[1]

\* C28: when write_save returns an error, for example for a brick whose
\* asset_name_index is out of range, nothing has been written to the byte
\* sink.
C28_NothingWrittenOnError ==
    call.op = "write_save" /\ ret.st \notin {"ok", "panic"} => ret.sink = <<>>

\* a field of a component section, followed by as many bytes as it holds when
\* gap is set: the bytes that the BitReader's impl Read passes over after a read
Field(bytes, gap) == IF gap THEN bytes \o Zeros(Len(bytes)) ELSE bytes

\* a catalog entry: the name, data_len, and a payload of data_len bytes
CatalogEntry(name, data_len, gap) ==
    Field(I32LE(Len(name) + 1), gap) \o Field(name \o <<0>>, gap)
        \o Field(LEBytes(data_len, 4), gap) \o [k \in 1..data_len |-> 255]

DataLens == {0, 1, 2, 3}

\* component sections of one and two entries, named "A" and "BTD", with
\* bytes after the last payload
CatalogSections ==
    {Field(I32LE(1), gap) \o CatalogEntry(<<65>>, d1, gap) \o Zeros(4) :
         d1 \in DataLens, gap \in BOOLEAN}
    \cup {Field(I32LE(2), gap) \o CatalogEntry(<<65>>, d1, gap)
              \o CatalogEntry(<<66, 84, 68>>, d2, gap) \o Zeros(4) :
              d1 \in DataLens, d2 \in DataLens, gap \in BOOLEAN}

\* Components::read on the bytes of a component section
CallComponentsRead ==
    /\ FirstCall
    /\ \E buf \in CatalogSections,
          version \in {AddedComponentsData, RenamedComponentDescriptors} :
          /\ call' = [op |-> "Components::read", buf |-> buf, version |-> version]
          /\ ret' = ComponentsRead(buf, version, [brick_count |-> 0])
    /\ CallFrame

\* the entry that Components::read reads with the bit cursor at the offset at
EntryAt(at) ==
    Head(ComponentsLoop([BitReaderNew(call.buf) EXCEPT !.pos = at], call.version, 1, <<>>).v)

Align8(n) == ((n + 7) \div 8) * 8

\* the catalog was read, and after each entry the cursor was at Past(entry):
\* the next entry was read from there, and the cursor was left there after
\* the last one
CursorAfterEntries(Past(_)) ==
    call.op = "Components::read" /\ ret.c.st = "ok" =>
        \A k \in 1..Len(ret.v.components) :
            IF k = Len(ret.v.components)
            THEN ret.v.compressed.pos = Past(ret.v.components[k])
            ELSE ret.v.components[k + 1] = EntryAt(Align8(Past(ret.v.components[k])))

\* C23 as stated: when the component catalog is read, for each entry the bit
\* cursor is advanced past the payload by exactly data_len bits from the
\* recorded data_pos, so the name of the next entry is read at the bit offset
\* align8(data_pos + data_len).
C23_AdvancedByDataLenBits ==
    CursorAfterEntries(LAMBDA e : e.data_pos + NatOf(e.data_len))

\* C23: when the component catalog is read, for each entry the bit cursor is
\* set to data_pos + 8 * data_len, data_len bytes past the recorded data_pos,
\* and the name of the next entry is read at that bit offset.
C23_AdvancedByDataLenBytes ==
    CursorAfterEntries(LAMBDA e : e.data_pos + 8 * NatOf(e.data_len))

\* a catalog of two entries was read whose first payload has two bytes or more
C23_Witness ==
    /\ call.op = "Components::read"
    /\ ret.c.st = "ok"
    /\ Len(ret.v.components) = 2
    /\ NatOf(ret.v.components[1].data_len) >= 2
    /\ ret.v.components[1].name = <<65>>
    /\ ret.v.components[2].name \in {<<66, 84, 68>>, <<66, 67, 68>>}
    /\ NatOf(ret.v.components[2].data_len) >= 2

\* times before the base, at it, of this century (hi 6379), at the last tick
\* of an i64 and after it, where the u64 product overflows, and late in the
\* range of a DateTime
Times ==
    {[secs |-> secs, nanos |-> nanos] : secs \in {-1, 0, 1, 9999999},
                                         nanos \in {0, 99, 150, 999999999}}
    \cup {[hi |-> hi, secs |-> secs, nanos |-> nanos] :
              hi \in {6379, 92233, 92234, 184467, 184468, 800000},
              secs \in {0, 7203685, 7203686}, nanos \in {0, 477580799, 477580800}}

\* write_date_time on a time, into an empty buffer
CallWriteDateTime ==
    /\ FirstCall
    /\ \E t \in Times :
          /\ call' = [op |-> "write_date_time", t |-> t]
          /\ ret' = write_date_time(CompressedNew, t)
    /\ CallFrame

\* date_time (read.rs) on the bytes that write_date_time wrote
CallDateTimeBack ==
    /\ After("write_date_time")
    /\ ret.st = "ok"
    /\ call' = [op |-> "date_time", t |-> call.t, buf |-> ret.uncompressed]
    /\ ret' = date_time(ByteCursor(ret.uncompressed))
    /\ CallFrame

\* t truncated to a multiple of 100 ns; the base for a time before it
Truncated(t) ==
    IF t.secs < 0 THEN [secs |-> 0, nanos |-> 0]
    ELSE [t EXCEPT !.nanos = @ - (@ % 100)]

\* C25: write_date_time encodes a time t at or after the epoch
\* 0001-01-01T00:00:00Z as ticks = seconds * 10_000_000 + subsec_nanos / 100
\* and every t before the epoch as 0 ticks, and date_time on the bytes
\* written returns t truncated to a multiple of 100 ns (the epoch for a t
\* before it).
C25_TicksAndBack ==
    /\ call.op = "write_date_time" =>
          /\ ret.st = "ok"
          /\ ret.uncompressed =
                 IF call.t.secs < 0 THEN Zeros(8)
                 ELSE BigLE(<<call.t.nanos \div 100, call.t.secs, Hi(call.t)>>, 8)
    /\ call.op = "date_time" => ret.c.st = "ok" /\ ret.v = Truncated(call.t)

\* bit streams of 32 bits, enough for every read_int
IntStreams == { <<0, 0, 0, 0>>, <<255, 255, 255, 255>>, <<165, 90, 60, 129>>, <<1, 0, 0, 128>> }

\* 1, 2, 3, 24, 2^31, 2^31 + 1 and 2^32 - 1
IntMaxes == { {0}, {1}, {0, 1}, {3, 4}, {31}, {0, 31}, 0..31 }

\* read_int(max) on a new BitReader over buf, and split_orientation on the
\* value of a read_int(24), as read_brick calls it
CallReadInt ==
    /\ FirstCall
    /\ \E buf \in IntStreams, max \in IntMaxes :
          LET res == ReadInt(BitReaderNew(buf), max)
          IN /\ call' = [op |-> "read_int", buf |-> buf, max |-> max]
             /\ ret' = [st  |-> res.r.st,
                        v   |-> res.v,
                        pos |-> res.r.pos,
                        split |-> IF max = {3, 4} /\ res.r.st = "ok"
                                  THEN split_orientation(NatOf(res.v))
                                  ELSE [direction |-> 0, rotation |-> 0]]
    /\ CallFrame

\* C29: for every max >= 1 and every bit stream, read_int(max) returns a
\* value strictly below max, and reads no bit when max <= 1; hence an
\* orientation decoded with read_int(24) is below 24, the mod 6 of
\* split_orientation does not change its direction, and an asset_name_index
\* decoded with read_int(max(brick_assets.len(), 2)) is below that maximum.
C29_ReadIntBelowMax ==
    call.op = "read_int" =>
        /\ ret.st = "ok"
        /\ U32Lt(ret.v, call.max)
        /\ call.max = {0} => ret.pos = 0
        /\ call.max = {3, 4} =>
              /\ NatOf(ret.v) < 24
              /\ ret.split.direction = NatOf(ret.v) \div 4
              /\ ret.split.rotation = NatOf(ret.v) % 4

(***************************************************************************)
(* read_new.rs: the screenshot of a Reader in its Init state.              *)
(***************************************************************************)
MaxReads == 2

\* Reader<R, Init>::screenshot_data of read_new.rs
NewScreenshotData(self) ==
    [st        |-> "ok",
     remaining |-> IF self.screenshot_header = <<>> THEN 0 ELSE self.screenshot_header[1].len,
     reader    |-> self.reader]

\* what one read of the underlying BufRead can do with a buffer of n bytes:
\* it takes at least one byte when n > 0 and a byte is left, never more than n
InnerReads(reader, n) ==
    LET most == IF n < Len(reader.buf) - reader.pos THEN n ELSE Len(reader.buf) - reader.pos
    IN {[reader EXCEPT !.pos = @ + k] : k \in (IF most = 0 THEN {0} ELSE 1..most)}

\* impl Read for ScreenshotReader: the outcomes of read on a buffer of len bytes
ScreenshotRead(self, len) ==
    LET nread == UMax(len, self.remaining)
    IN IF nread > len THEN {[self EXCEPT !.st = "panic"]}
       ELSE {[self EXCEPT !.reader = reader,
                          !.remaining = UMax(@ - (reader.pos - self.reader.pos), 0)] :
                 reader \in InnerReads(self.reader, nread)}

\* ScreenshotReader::done
done(self) ==
    Let(skip(self.reader, self.remaining), LAMBDA skipped :
        [self EXCEPT !.reader = skipped.c, !.st = skipped.c.st])

\* the first bytes of the brick section that follows the screenshot
BrickSectionStart == <<7, 0, 0, 0>>

\* readers whose stream stands at the byte after the screenshot header
ShotReaders ==
    {[screenshot_header |-> <<>>, reader |-> ByteCursor(BrickSectionStart)]}
    \cup {[screenshot_header |-> <<[format |-> 1, len |-> Len(shot)]>>,
           reader |-> ByteCursor(shot \o BrickSectionStart)] :
              shot \in {<<>>, <<137>>, <<137, 80>>, <<137, 80, 78>>}}

BufferSizes == 0..3

CallScreenshotData ==
    /\ FirstCall
    /\ \E self \in ShotReaders :
          /\ call' = [op |-> "screenshot_data", self |-> self, reads |-> <<>>, done |-> FALSE]
          /\ ret' = NewScreenshotData(self)
    /\ CallFrame

\* one read on the ScreenshotReader
CallScreenshotRead ==
    /\ After("screenshot_data")
    /\ ~call.done
    /\ ret.st = "ok"
    /\ Len(call.reads) < MaxReads
    /\ \E len \in BufferSizes :
          /\ call' = [call EXCEPT !.reads = Append(@, [len |-> len, remaining |-> ret.remaining])]
          /\ ret' \in ScreenshotRead(ret, len)
    /\ CallFrame

CallScreenshotDone ==
    /\ After("screenshot_data")
    /\ ~call.done
    /\ ret.st = "ok"
    /\ call' = [call EXCEPT !.done = TRUE]
    /\ ret' = done(ret)
    /\ CallFrame

\* the length of the screenshot of the reader that was opened
ScreenshotLen ==
    IF call.self.screenshot_header = <<>> THEN 0 ELSE call.self.screenshot_header[1].len

\* C30: for any sequence of reads with any buffer sizes on the
\* ScreenshotReader that screenshot_data() of read_new.rs returned, followed
\* by done(): no read fails when its buffer is shorter than the rest of the
\* screenshot, the bytes taken from the stream never go past the screenshot
\* into the brick section, and after done() the stream stands at the first
\* byte of the brick section.
C30_ScreenshotReadsStayInside ==
    call.op = "screenshot_data" =>
        /\ ret.st = "ok"
        /\ ret.reader.pos <= ScreenshotLen
        /\ call.done => ret.reader.pos = ScreenshotLen

CallsInit ==
    /\ overflow_checks \in BOOLEAN
    /\ bw = BitWriterNew
    /\ log = <<>>
    /\ br = BitReaderNew(<<>>)
    /\ got = <<>>
    /\ phase = "idle"
    /\ PipeIdle

CallsNext ==
    \/ CallCompressedFinish
    \/ CallReadCompressedBack
    \/ CallReadCompressed
    \/ CallCompressedSection
    \/ CallSkipCompressed
    \/ CallNewReaderNew
    \/ CallReaderNew
    \/ CallReadHeader2
    \/ CallNewReadHeader2
    \/ CallOrientation
    \/ CallCollect
    \/ CallWriteString
    \/ CallStringBack
    \/ CallWriteSave
    \/ CallIntoWriteData
    \/ CallComponentsRead
    \/ CallWriteDateTime
    \/ CallDateTimeBack
    \/ CallReadInt
    \/ CallScreenshotData
    \/ CallScreenshotRead
    \/ CallScreenshotDone

SpecCalls == CallsInit /\ [][CallsNext]_vars

====
